---- MODULE Spec2Model ----
(***************************************************************************)
(* Importance-sampling / Bayes-factor engine of archeo.                    *)
(*                                                                         *)
(* Real numbers are exact rationals; the IEEE special values the code can  *)
(* produce (NaN, +inf, -inf) are kept as separate values, so that a        *)
(* division by zero or a log(0) is something a property can observe.       *)
(* Floating point rounding is not modelled.                                *)
(***************************************************************************)
EXTENDS Integers, Sequences, FiniteSets, TLC

(***************************************************************************)
(* Bounds of the model.                                                    *)
(***************************************************************************)
MaxRows == 2
ULevels == 2
MaxSamples == 2
MaxValue == 3
MaxBins == 2

(***************************************************************************)
(* Numbers: [t, n, d] with t in {"fin","nan","pinf","ninf"}; a finite      *)
(* value is the non-negative rational n/d in lowest terms.                 *)
(***************************************************************************)
RECURSIVE GCD(_, _)
GCD(a, b) == IF b = 0 THEN a ELSE GCD(b, a % b)

F(n, d) == LET g == GCD(n, d) IN [t |-> "fin", n |-> n \div g, d |-> d \div g]
NaN == [t |-> "nan", n |-> 0, d |-> 1]
PInf == [t |-> "pinf", n |-> 0, d |-> 1]
NInf == [t |-> "ninf", n |-> 0, d |-> 1]
Zero == F(0, 1)
One == F(1, 1)

IsFin(x) == x.t = "fin"
IsNaN(x) == x.t = "nan"

\* a * b of two non-negative floats (cross-reduced to keep the integers small)
FMul(a, b) ==
    IF IsNaN(a) \/ IsNaN(b) THEN NaN
    ELSE IF IsFin(a) /\ IsFin(b)
         THEN LET g1 == GCD(a.n, b.d)
                  g2 == GCD(b.n, a.d)
              IN  F((a.n \div g1) * (b.n \div g2), (a.d \div g2) * (b.d \div g1))
    ELSE IF (IsFin(a) /\ a.n = 0) \/ (IsFin(b) /\ b.n = 0) THEN NaN
    ELSE PInf

\* a / b of two non-negative floats (numpy true division: x/0 = inf, 0/0 = nan)
FDiv(a, b) ==
    IF IsNaN(a) \/ IsNaN(b) THEN NaN
    ELSE IF IsFin(a) /\ IsFin(b)
         THEN IF b.n = 0 THEN (IF a.n = 0 THEN NaN ELSE PInf)
              ELSE FMul(a, F(b.d, b.n))
    ELSE IF IsFin(b) THEN PInf
    ELSE IF IsFin(a) THEN Zero
    ELSE NaN

FAdd(a, b) ==
    IF IsNaN(a) \/ IsNaN(b) THEN NaN
    ELSE IF IsFin(a) /\ IsFin(b)
         THEN LET g == GCD(a.d, b.d)
              IN  F(a.n * (b.d \div g) + b.n * (a.d \div g), (a.d \div g) * b.d)
    ELSE PInf

\* a > b; every comparison with NaN is false
FGt(a, b) ==
    /\ ~IsNaN(a)
    /\ ~IsNaN(b)
    /\ IF IsFin(a) /\ IsFin(b) THEN a.n * b.d > b.n * a.d
       ELSE a.t = "pinf" /\ b.t # "pinf"

FLe(a, b) == ~IsNaN(a) /\ ~IsNaN(b) /\ ~FGt(a, b)

\* np.log on a non-negative float; a finite logarithm is kept as its antilog
FLog(a) ==
    IF IsFin(a) THEN (IF a.n = 0 THEN NInf ELSE a)
    ELSE a

\* x - y of two logarithms
LSub(x, y) ==
    IF IsNaN(x) \/ IsNaN(y) THEN NaN
    ELSE IF IsFin(x) /\ IsFin(y) THEN FDiv(x, y)
    ELSE IF IsFin(x) THEN (IF y.t = "ninf" THEN PInf ELSE NInf)
    ELSE IF IsFin(y) THEN x
    ELSE IF x.t = y.t THEN NaN
    ELSE x

\* x + y of two logarithms
LAdd(x, y) ==
    IF IsNaN(x) \/ IsNaN(y) THEN NaN
    ELSE IF IsFin(x) /\ IsFin(y) THEN FMul(x, y)
    ELSE IF IsFin(x) THEN y
    ELSE IF IsFin(y) THEN x
    ELSE IF x.t = y.t THEN x
    ELSE NaN

\* np.exp of a logarithm
FExp(x) ==
    IF x.t = "ninf" THEN Zero
    ELSE x

RECURSIVE FSum(_)
FSum(s) == IF s = <<>> THEN Zero ELSE FAdd(Head(s), FSum(Tail(s)))

RECURSIVE FProd(_)
FProd(s) == IF s = <<>> THEN One ELSE FMul(Head(s), FProd(Tail(s)))

(***************************************************************************)
(* The object: ImportanceSamplingData (resampler/interface.py) with the    *)
(* fields of ImportanceSamplingDataBase.  A dataset is a data frame:       *)
(* [cols |-> its column names, rows |-> the sequence of its rows].         *)
(***************************************************************************)
VARIABLES
    posterior_samples,
    prior_samples,
    new_prior_samples,
    binsize_spin,
    binsize_mass,
    assume_parameter_independence,
    bounds,
    pc,
    op,
    ret,
    warned,
    h_in,
    h_out,
    sd_in,
    sd_out,
    _nbins,
    _lb,
    _ub,
    _binwidth,
    params,
    drawn,
    col_name,
    rng,
    trials,
    sweep,
    seen

vars == <<posterior_samples, prior_samples, new_prior_samples, binsize_spin,
          binsize_mass, assume_parameter_independence, bounds, pc, op, ret,
          warned, h_in, h_out, sd_in, sd_out, _nbins, _lb, _ub, _binwidth, params,
          drawn, col_name, rng, trials, sweep, seen>>

Columns == {"m_1", "a_1"}
MassVals == {0, 2}
SpinVals == {0, 2}
ColVals(c) == IF c = "m_1" THEN MassVals ELSE SpinVals

RowsOver(cols) == {r \in [cols -> MassVals \cup SpinVals] : \A c \in cols : r[c] \in ColVals(c)}

\* the prior and the candidate prior are enumerated in one canonical row
\* order (only their histograms and the multiset of their rows are used);
\* the posterior, whose rows are picked by position, in every order
RowKey(r) == (IF "m_1" \in DOMAIN r THEN 2 * r["m_1"] ELSE 0)
             + (IF "a_1" \in DOMAIN r THEN r["a_1"] ELSE 0)

AllFramesOver(cols) ==
    { [cols |-> cols, rows |-> rs] :
        rs \in UNION { [1..n -> RowsOver(cols)] : n \in 0..MaxRows } }

FramesOver(cols) ==
    { df \in AllFramesOver(cols) :
        \A i \in 1..(Len(df.rows) - 1) : RowKey(df.rows[i]) <= RowKey(df.rows[i + 1]) }

Column(df, c) == [i \in 1..Len(df.rows) |-> df.rows[i][c]]

\* a value the code computes that may be NaN: [nan, v]
Num(v) == [nan |-> FALSE, v |-> v]
NotANumber == [nan |-> TRUE, v |-> 0]

RECURSIVE SeqMin(_)
SeqMin(s) == IF Len(s) = 1 THEN s[1]
             ELSE LET m == SeqMin(Tail(s)) IN IF s[1] <= m THEN s[1] ELSE m

RECURSIVE SeqMax(_)
SeqMax(s) == IF Len(s) = 1 THEN s[1]
             ELSE LET m == SeqMax(Tail(s)) IN IF s[1] >= m THEN s[1] ELSE m

\* pandas Series.min() / .max(): NaN on an empty series
SeriesMin(s) == IF s = <<>> THEN NotANumber ELSE Num(SeqMin(s))
SeriesMax(s) == IF s = <<>> THEN NotANumber ELSE Num(SeqMax(s))

\* Python's builtin min(a, b, c): the running result is replaced only when
\* "x < result" is true, which it never is when either side is NaN
PyMin2(acc, x) == IF ~acc.nan /\ ~x.nan /\ x.v < acc.v THEN x ELSE acc
PyMax2(acc, x) == IF ~acc.nan /\ ~x.nan /\ x.v > acc.v THEN x ELSE acc
PyMin3(a, b, c) == PyMin2(PyMin2(a, b), c)
PyMax3(a, b, c) == PyMax2(PyMax2(a, b), c)

common_columns(post, prior, new) == (post.cols \cap prior.cols) \cap new.cols

compute_bounds(post, prior, new) ==
    [col \in common_columns(post, prior, new) |->
        [low  |-> PyMin3(SeriesMin(Column(post, col)), SeriesMin(Column(prior, col)),
                         SeriesMin(Column(new, col))),
         high |-> PyMax3(SeriesMax(Column(post, col)), SeriesMax(Column(prior, col)),
                         SeriesMax(Column(new, col)))]]

(***************************************************************************)
(* BinSpec: get_binsize, get_nbins, get_edges, get_binwidth (base.py).     *)
(***************************************************************************)
\* the names a caller may pass; str.startswith on them
Names == {"m_1", "a_1", "m_2", "k_f"}
startswith(name, prefix) ==
    \/ prefix = "a" /\ name \in {"a_1"}
    \/ prefix = "m" /\ name \in {"m_1", "m_2"}

\* raise ValueError(f"Unknown column name {col_name}")
get_binsize_raises(col) == ~startswith(col, "a") /\ ~startswith(col, "m")
get_binsize(col) == IF startswith(col, "a") THEN binsize_spin ELSE binsize_mass

\* self.bounds[col_name]: a dict lookup, KeyError when the key is absent
lookup_bounds_defaulting(col) ==
    IF col \in DOMAIN bounds THEN [err |-> "none", dom |-> bounds[col]]
    ELSE [err |-> "none", dom |-> [low |-> Num(0), high |-> Num(0)]]

lookup_bounds(col) ==
    IF col \in DOMAIN bounds THEN [err |-> "none", dom |-> bounds[col]]
    ELSE [err |-> "KeyError", dom |-> [low |-> NotANumber, high |-> NotANumber]]

\* int(NaN) raises ValueError
get_nbins_raises(col) == bounds[col].low.nan \/ bounds[col].high.nan

\* int((bounds.high - bounds.low) / binsize)
domain_nbins(dom, binsize) == (dom.high.v - dom.low.v) \div binsize

get_nbins(col) == domain_nbins(bounds[col], get_binsize(col))

\* edges[1] - edges[0]; with nbins = 0 there is no edges[1]: IndexError
get_binwidth_raises(col) == get_nbins(col) < 1
get_binwidth(col) == F(bounds[col].high.v - bounds[col].low.v, get_nbins(col))

(***************************************************************************)
(* SafeRatio: _safe_divide (base.py), elementwise over a sequence.         *)
(***************************************************************************)
ZtolDen == 100000000
ztol == F(1, ZtolDen)

safe_divide_unguarded(a, b) == FExp(LSub(FLog(a), FLog(b)))

safe_divide1(a, b) == IF FGt(b, ztol) THEN FExp(LSub(FLog(a), FLog(b))) ELSE Zero

safe_divide(a, b) == [k \in DOMAIN b |-> safe_divide1(a[k], b[k])]

(***************************************************************************)
(* HistogramEstimator: np.histogram(samples, bins = nbins, density = True, *)
(* range = (low, high)) and the integral check of get_histogram_1d.        *)
(***************************************************************************)
\* the 0-based bin of x in [low, high]; x = high falls in the last bin
bin_index_dropping_high(x, low, high, nbins) == ((x - low) * nbins) \div (high - low)

bin_index(x, low, high, nbins) ==
    LET raw == ((x - low) * nbins) \div (high - low)
    IN  IF raw = nbins THEN nbins - 1 ELSE raw

hist_counts(samples, nbins, low, high) ==
    [k \in 1..nbins |->
        Cardinality({i \in DOMAIN samples :
                        /\ samples[i] >= low
                        /\ samples[i] <= high
                        /\ bin_index(samples[i], low, high, nbins) = k - 1})]

RECURSIVE IntSum(_)
IntSum(s) == IF s = <<>> THEN 0 ELSE Head(s) + IntSum(Tail(s))

\* n / db / n.sum()
np_histogram(samples, nbins, low, high) ==
    LET n     == hist_counts(samples, nbins, low, high)
        db    == F(high - low, nbins)
        total == F(IntSum(n), 1)
    IN  [k \in 1..nbins |-> FDiv(FDiv(F(n[k], 1), db), total)]

\* numpy widens an empty range: (low, high) becomes (low - 0.5, high + 0.5).
\* The widened histogram is computed on doubled coordinates, in which the
\* densities are half of what they are in the samples' own unit.
np_histogram_range(samples, nbins, low, high) ==
    IF low = high
    THEN LET doubled == np_histogram([i \in DOMAIN samples |-> 2 * samples[i]], nbins,
                                     2 * low - 1, 2 * high + 1)
         IN  [k \in 1..nbins |-> FMul(F(2, 1), doubled[k])]
    ELSE np_histogram(samples, nbins, low, high)

\* edges[1] - edges[0] of the edges np.histogram returns
np_binwidth(nbins, low, high) ==
    IF low = high THEN F(1, nbins) ELSE F(high - low, nbins)

\* np.isclose(auc, 1.0, atol = 1e-6) with numpy's default rtol = 1e-5
AtolDen == 1000000
IsCloseToOne(auc) ==
    /\ IsFin(auc)
    /\ LET diff == IF auc.n >= auc.d THEN auc.n - auc.d ELSE auc.d - auc.n
       IN  diff * AtolDen <= 11 * auc.d

hist_auc(hist, binwidth) == FMul(FSum(hist), binwidth)

\* get_histogram_1d logs a warning and returns the histogram all the same
histogram_1d_warns(samples, nbins, low, high) ==
    ~IsCloseToOne(hist_auc(np_histogram_range(samples, nbins, low, high),
                           np_binwidth(nbins, low, high)))

get_histogram_1d(samples, nbins, low, high) == np_histogram_range(samples, nbins, low, high)

\* np.histogram raises ValueError when bins < 1
get_hist_1d_raises(col) == get_nbins_raises(col) \/ get_nbins(col) < 1

get_hist_1d(df, col) ==
    get_histogram_1d(Column(df, col), get_nbins(col), bounds[col].low.v, bounds[col].high.v)

get_hist_1d_warns(df, col) ==
    histogram_1d_warns(Column(df, col), get_nbins(col), bounds[col].low.v, bounds[col].high.v)

\* get_histrogram of forward/bayes.py: the same estimate, but a failed
\* integral check raises ValueError instead of logging
get_histrogram_raises(samples, nbins, low, high) ==
    ~IsCloseToOne(hist_auc(np_histogram_range(samples, nbins, low, high),
                           np_binwidth(nbins, low, high)))

get_histrogram(samples, nbins, low, high) == np_histogram_range(samples, nbins, low, high)

(***************************************************************************)
(* WeightFunction: scipy.stats.rv_histogram((ratio, edges)).pdf(x).        *)
(***************************************************************************)
\* np.searchsorted(edges, x, side = "right"): the number of edges <= x
searchsorted_right(x, low, high, nbins) ==
    Cardinality({j \in 0..nbins : low * nbins + j * (high - low) <= x * nbins})

rv_histogram_pdf(ratio, low, high, x) ==
    LET nbins == Len(ratio)
        width == F(high - low, nbins)
        norm  == FSum([k \in 1..nbins |-> FMul(ratio[k], width)])
        k     == searchsorted_right(x, low, high, nbins)
    IN  IF x < low \/ x > high THEN Zero
        ELSE IF k = nbins + 1 THEN Zero
        ELSE FDiv(ratio[k], norm)

(***************************************************************************)
(* pandas DataFrame.sample(n = len(df), weights = w, replace = True,       *)
(* random_state = rs).  The uniform draws of the seeded generator are      *)
(* us[i] / ULevels; numpy's choice looks each one up in the cumulative     *)
(* distribution with searchsorted(cdf, u, side = "right").                 *)
(***************************************************************************)
\* missing (NaN) weights are treated as zero
fill_weight(w) == IF IsNaN(w) THEN Zero ELSE w

sample_raises_inf_only(w) == \E i \in DOMAIN w : w[i].t = "pinf"

\* "weight vector may not include `inf` values" / "weights sum to zero"
sample_raises(w) ==
    \/ \E i \in DOMAIN w : w[i].t = "pinf"
    \/ FSum([i \in DOMAIN w |-> fill_weight(w[i])]).n = 0

Draws(n) == [1..n -> 0..(ULevels - 1)]

\* a draw that ignores the weights
choice_index_unweighted(w, u) == ((u * Len(w)) \div ULevels) + 1

choice_index(w, u) ==
    LET p     == [i \in DOMAIN w |-> fill_weight(w[i])]
        total == FSum(p)
        cdf   == [i \in DOMAIN w |-> FDiv(FSum(SubSeq(p, 1, i)), total)]
    IN  Cardinality({i \in DOMAIN w : FLe(cdf[i], F(u, ULevels))}) + 1

sample_rows(w, us) == [i \in DOMAIN us |-> choice_index(w, us[i])]

(***************************************************************************)
(* Independent strategy: ISDataAssumeIndependence (assume_independence.py) *)
(***************************************************************************)
CommonColumns == common_columns(posterior_samples, prior_samples, new_prior_samples)

\* the columns in the order the code loops over them
RECURSIVE SetToSeq(_)
SetToSeq(S) == IF S = {} THEN <<>>
               ELSE LET c == CHOOSE x \in S : TRUE IN <<c>> \o SetToSeq(S \ {c})

ColumnSeq == SetToSeq(CommonColumns)

\* rv_histogram((ratio, edges)).pdf(x) over the edges of col
weight_function(ratio, col, x) ==
    rv_histogram_pdf(ratio, bounds[col].low.v, bounds[col].high.v, x)

get_weights_1d(col) ==
    LET prior_hist     == get_hist_1d(prior_samples, col)
        new_prior_hist == get_hist_1d(new_prior_samples, col)
        ratio          == safe_divide(new_prior_hist, prior_hist)
    IN  [i \in 1..Len(posterior_samples.rows) |->
            weight_function(ratio, col, posterior_samples.rows[i][col])]

\* np.sum(new_prior_hist * _safe_divide(posterior_hist, prior_hist)) * binwidth
contribution_1d(col) ==
    LET prior_hist     == get_hist_1d(prior_samples, col)
        posterior_hist == get_hist_1d(posterior_samples, col)
        new_prior_hist == get_hist_1d(new_prior_samples, col)
        lr             == safe_divide(posterior_hist, prior_hist)
    IN  FMul(FSum([k \in DOMAIN prior_hist |-> FMul(new_prior_hist[k], lr[k])]),
             get_binwidth(col))

\* weights *= rv.pdf(self.prior_samples[col]), over all common columns
prior_weights_1d ==
    [i \in 1..Len(prior_samples.rows) |->
        FProd([j \in 1..Len(ColumnSeq) |->
                 LET col == ColumnSeq[j]
                 IN  weight_function(
                         safe_divide(get_hist_1d(new_prior_samples, col),
                                     get_hist_1d(prior_samples, col)),
                         col, prior_samples.rows[i][col])])]

bayes_factor_product_1d == FProd([j \in 1..Len(ColumnSeq) |-> contribution_1d(ColumnSeq[j])])

get_bayes_factor_1d_raises == \E col \in CommonColumns : get_hist_1d_raises(col)

get_bayes_factor_1d ==
    LET s == FSum(prior_weights_1d)
    IN  IF IsFin(s) /\ s.n = 0 THEN Zero ELSE bayes_factor_product_1d

get_bayes_factor_1d_warns ==
    \E col \in CommonColumns :
        \E df \in {prior_samples, posterior_samples, new_prior_samples} :
            get_hist_1d_warns(df, col)

posterior_weights_1d ==
    [i \in 1..Len(posterior_samples.rows) |->
        FProd([j \in 1..Len(ColumnSeq) |-> get_weights_1d(ColumnSeq[j])[i]])]

(***************************************************************************)
(* Joint strategy: ISDataGeneric (generic.py).  An N-D histogram is a      *)
(* function from cells, [column -> 1-based bin], to densities.             *)
(***************************************************************************)
Cells == [CommonColumns -> 1..MaxRows * 2] \cap
         { c \in [CommonColumns -> 1..MaxRows * 2] : \A col \in CommonColumns : c[col] <= get_nbins(col) }

RECURSIVE CellSum(_, _)
CellSum(f, S) == IF S = {} THEN Zero
                 ELSE LET c == CHOOSE x \in S : TRUE IN FAdd(f[c], CellSum(f, S \ {c}))

bin_volume == FProd([j \in 1..Len(ColumnSeq) |-> get_binwidth(ColumnSeq[j])])

row_in_range(r) ==
    \A col \in CommonColumns : r[col] >= bounds[col].low.v /\ r[col] <= bounds[col].high.v

row_cell(r) ==
    [col \in CommonColumns |->
        bin_index(r[col], bounds[col].low.v, bounds[col].high.v, get_nbins(col)) + 1]

\* np.histogramdd(samples, bins = nbins, density = True, range = bounds)
get_histogram_dd(rows) ==
    LET inside == {i \in DOMAIN rows : row_in_range(rows[i])}
        total  == F(Cardinality(inside), 1)
    IN  [c \in Cells |->
            FDiv(FDiv(F(Cardinality({i \in inside : row_cell(rows[i]) = c}), 1), bin_volume),
                 total)]

get_hist_dd(df) == get_histogram_dd(df.rows)

get_hist_dd_warns(df) ==
    ~IsCloseToOne(FMul(CellSum(get_hist_dd(df), Cells), bin_volume))

safe_divide_dd(a, b) == [c \in DOMAIN b |-> safe_divide1(a[c], b[c])]

\* get_binwidth comes first: int(NaN) is a ValueError, edges[1] of a
\* one-element linspace an IndexError
get_bayes_factor_dd_error ==
    IF \E col \in CommonColumns : get_nbins_raises(col) THEN "ValueError"
    ELSE IF \E col \in CommonColumns : get_binwidth_raises(col) THEN "IndexError"
    ELSE "none"

_get_bayes_factor_dd(prior, posterior, new_prior) ==
    LET bin_auc           == bin_volume
        new_prior_hist_bh == get_hist_dd(new_prior)
        prior_hist_bh     == get_hist_dd(prior)
        posterior_hist_bh == get_hist_dd(posterior)
        ratio             == safe_divide_dd(new_prior_hist_bh, prior_hist_bh)
    IN  FMul(CellSum([c \in Cells |-> FMul(posterior_hist_bh[c], ratio[c])], Cells), bin_auc)

\* bootstrapping = False
get_bayes_factor_dd == _get_bayes_factor_dd(prior_samples, posterior_samples, new_prior_samples)

get_bayes_factor_dd_warns ==
    \E df \in {prior_samples, posterior_samples, new_prior_samples} : get_hist_dd_warns(df)

\* np.searchsorted(edges[col], row[col], side = "right") - 1, per column:
\* a 0-based index into the weights grid, which has get_nbins(col) entries
lookup_index(r, col) ==
    searchsorted_right(r[col], bounds[col].low.v, bounds[col].high.v, get_nbins(col)) - 1

posterior_sample_weights_dd_error ==
    IF \E col \in CommonColumns : get_hist_1d_raises(col) THEN "ValueError"
    ELSE IF \E i \in 1..Len(posterior_samples.rows) : \E col \in CommonColumns :
               lookup_index(posterior_samples.rows[i], col) >= get_nbins(col)
         THEN "IndexError"
    ELSE "none"

get_posterior_sample_weights_dd ==
    LET prior_hist     == get_hist_dd(prior_samples)
        new_prior_hist == get_hist_dd(new_prior_samples)
        weights_matrix == safe_divide_dd(new_prior_hist, prior_hist)
    IN  [i \in 1..Len(posterior_samples.rows) |->
            weights_matrix[[col \in CommonColumns |->
                              lookup_index(posterior_samples.rows[i], col) + 1]]]

(***************************************************************************)
(* The interface (interface.py) and the calls of its user.                 *)
(***************************************************************************)
NoRet == [kind |-> "none", val |-> Zero, err |-> "none", idx |-> <<>>, weights |-> <<>>]
Value(v) == [kind |-> "value", val |-> v, err |-> "none", idx |-> <<>>, weights |-> <<>>]
Raised(e) == [kind |-> "error", val |-> Zero, err |-> e, idx |-> <<>>, weights |-> <<>>]
Array(h) == [kind |-> "array", val |-> Zero, err |-> "none", idx |-> <<>>, weights |-> h]
Samples(ix, w) == [kind |-> "samples", val |-> Zero, err |-> "none", idx |-> ix, weights |-> w]

NoHist == [called |-> FALSE, hist |-> <<>>, raised |-> FALSE]
NoRatio == [called |-> FALSE, out |-> <<>>]
Idle == [samples |-> <<>>, low |-> 0, high |-> 0, nbins |-> 0]
NoArrays == [a |-> <<>>, b |-> <<>>]

\* Python's None in a field that otherwise holds a float
None == [t |-> "none", n |-> 0, d |-> 1]
NoParams == [candidate_prior_param |-> <<>>, prior_param |-> <<>>, posterior_param |-> <<>>]

\* no BayesFactorCalculator is in use
CalcUnused ==
    /\ _nbins = 1
    /\ _lb = None
    /\ _ub = None
    /\ _binwidth = None
    /\ params = NoParams
    /\ drawn = NoParams

Calc == <<_nbins, _lb, _ub, _binwidth, params, drawn>>

\* no per-parameter call, no bootstrap trial and no sweep is under way, and
\* numpy's global random stream is in its start state
NoSweep == [pc |-> "none"]

EnvUnused ==
    /\ col_name = "none"
    /\ rng = 0
    /\ trials = <<>>
    /\ sweep = NoSweep
    /\ seen = <<>>

Env == <<col_name, rng, trials, sweep, seen>>

AuxInit ==
    /\ h_in = Idle
    /\ h_out = NoHist
    /\ sd_in = NoArrays
    /\ sd_out = NoRatio
    /\ CalcUnused
    /\ EnvUnused

Aux == <<h_in, h_out, sd_in, sd_out, Calc, Env>>

Init ==
    /\ AuxInit
    /\ posterior_samples \in AllFramesOver(Columns)
    /\ prior_samples \in FramesOver(Columns)
    /\ new_prior_samples \in FramesOver({"m_1"}) \cup FramesOver(Columns)
    /\ binsize_spin = 1
    /\ binsize_mass \in {1, 2}
    /\ assume_parameter_independence \in BOOLEAN
    /\ bounds = compute_bounds(posterior_samples, prior_samples, new_prior_samples)
    /\ pc = "idle"
    /\ op = "none"
    /\ ret = NoRet
    /\ warned = FALSE

Frame == <<posterior_samples, prior_samples, new_prior_samples, binsize_spin,
           binsize_mass, assume_parameter_independence, bounds>>

get_bayes_factor ==
    /\ pc = "idle"
    /\ pc' = "returned"
    /\ op' = "get_bayes_factor"
    /\ IF assume_parameter_independence
       THEN IF get_bayes_factor_1d_raises
            THEN ret' = Raised("ValueError") /\ warned' = FALSE
            ELSE ret' = Value(get_bayes_factor_1d) /\ warned' = get_bayes_factor_1d_warns
       ELSE IF get_bayes_factor_dd_error # "none"
            THEN ret' = Raised(get_bayes_factor_dd_error) /\ warned' = FALSE
            ELSE ret' = Value(get_bayes_factor_dd) /\ warned' = get_bayes_factor_dd_warns
    /\ UNCHANGED <<Frame, Aux>>

reweight(w) ==
    IF sample_raises(w)
    THEN ret' = Raised("ValueError")
    ELSE \E us \in Draws(Len(posterior_samples.rows)) : ret' = Samples(sample_rows(w, us), w)

get_reweighted_samples ==
    /\ pc = "idle"
    /\ pc' = "returned"
    /\ op' = "get_reweighted_samples"
    /\ warned' = FALSE
    /\ IF assume_parameter_independence
       THEN IF get_bayes_factor_1d_raises
            THEN ret' = Raised("ValueError")
            ELSE reweight(posterior_weights_1d)
       ELSE IF posterior_sample_weights_dd_error # "none"
            THEN ret' = Raised(posterior_sample_weights_dd_error)
            ELSE reweight(get_posterior_sample_weights_dd)
    /\ UNCHANGED <<Frame, Aux>>

(***************************************************************************)
(* The earlier ImportanceSamplingData of forward/resampler.py: one         *)
(* strategy (per parameter), bounds over every posterior column, and the   *)
(* correction for the parameters the candidate prior does not control.     *)
(***************************************************************************)
\* np.inf / -np.inf stand in for a frame without the column: they never
\* replace the running minimum / maximum
legacy_compute_bounds(post, prior, new) ==
    [col \in post.cols |->
        [low  |-> LET a == SeriesMin(Column(post, col))
                      b == IF col \in prior.cols THEN PyMin2(a, SeriesMin(Column(prior, col))) ELSE a
                  IN  IF col \in new.cols THEN PyMin2(b, SeriesMin(Column(new, col))) ELSE b,
         high |-> LET a == SeriesMax(Column(post, col))
                      b == IF col \in prior.cols THEN PyMax2(a, SeriesMax(Column(prior, col))) ELSE a
                  IN  IF col \in new.cols THEN PyMax2(b, SeriesMax(Column(new, col))) ELSE b]]

legacy_bounds == legacy_compute_bounds(posterior_samples, prior_samples, new_prior_samples)

legacy_get_nbins(col) == (legacy_bounds[col].high.v - legacy_bounds[col].low.v) \div get_binsize(col)

legacy_get_binwidth(col) ==
    F(legacy_bounds[col].high.v - legacy_bounds[col].low.v, legacy_get_nbins(col))

legacy_get_hist_raises(col) ==
    legacy_bounds[col].low.nan \/ legacy_bounds[col].high.nan \/ legacy_get_nbins(col) < 1

\* _get_hist on a series of the column
legacy_get_hist(series, col) ==
    get_histogram_1d(series, legacy_get_nbins(col), legacy_bounds[col].low.v,
                     legacy_bounds[col].high.v)

legacy_contribution(new_series, col) ==
    LET prior_hist     == legacy_get_hist(Column(prior_samples, col), col)
        posterior_hist == legacy_get_hist(Column(posterior_samples, col), col)
        new_prior_hist == legacy_get_hist(new_series, col)
        lr             == safe_divide(posterior_hist, prior_hist)
    IN  FMul(FSum([k \in DOMAIN prior_hist |-> FMul(new_prior_hist[k], lr[k])]),
             legacy_get_binwidth(col))

ControlledSeq == SetToSeq(posterior_samples.cols \cap new_prior_samples.cols)
CorrelatedSeq == SetToSeq(posterior_samples.cols \ new_prior_samples.cols)

legacy_prior_weights ==
    [i \in 1..Len(prior_samples.rows) |->
        FProd([j \in 1..Len(ControlledSeq) |->
                 LET col == ControlledSeq[j]
                 IN  rv_histogram_pdf(
                         safe_divide(legacy_get_hist(Column(new_prior_samples, col), col),
                                     legacy_get_hist(Column(prior_samples, col), col)),
                         legacy_bounds[col].low.v, legacy_bounds[col].high.v,
                         prior_samples.rows[i][col])])]

\* the column col of prior_samples.sample(n, weights, replace = True, random_state)
inferred_new_prior(col, us) ==
    LET picked == sample_rows(legacy_prior_weights, us)
    IN  [i \in DOMAIN picked |-> prior_samples.rows[picked[i]][col]]

legacy_get_bayes_factor_raises ==
    \/ \E col \in posterior_samples.cols : legacy_get_hist_raises(col)
    \/ sample_raises(legacy_prior_weights)

legacy_get_bayes_factor(us) ==
    FMul(FProd([j \in 1..Len(ControlledSeq) |->
                  legacy_contribution(Column(new_prior_samples, ControlledSeq[j]),
                                      ControlledSeq[j])]),
         FProd([j \in 1..Len(CorrelatedSeq) |->
                  legacy_contribution(inferred_new_prior(CorrelatedSeq[j], us),
                                      CorrelatedSeq[j])]))

resampler_get_bayes_factor ==
    /\ pc = "idle"
    /\ pc' = "returned"
    /\ op' = "resampler.get_bayes_factor"
    /\ warned' = FALSE
    /\ IF legacy_get_bayes_factor_raises
       THEN ret' = Raised("ValueError")
       ELSE \E us \in Draws(Len(prior_samples.rows)) : ret' = Value(legacy_get_bayes_factor(us))
    /\ UNCHANGED <<Frame, Aux>>

\* the caller takes the result and may call again
Return ==
    /\ pc = "returned"
    /\ pc' = "idle"
    /\ op' = "none"
    /\ ret' = NoRet
    /\ warned' = FALSE
    /\ drawn' = NoParams
    /\ UNCHANGED <<Frame, Env, h_in, h_out, sd_in, sd_out, _nbins, _lb, _ub, _binwidth,
                   params>>

Next ==
    \/ get_bayes_factor
    \/ get_reweighted_samples
    \/ resampler_get_bayes_factor
    \/ Return

Spec == Init /\ [][Next]_vars

(***************************************************************************)
(* HistogramEstimator on its own: the module-level functions               *)
(* get_histogram_1d (assume_independence.py) and get_histrogram            *)
(* (forward/bayes.py) applied to a sample sequence and a BinSpec.          *)
(***************************************************************************)
ObjectUnused ==
    /\ posterior_samples = [cols |-> {}, rows |-> <<>>]
    /\ prior_samples = [cols |-> {}, rows |-> <<>>]
    /\ new_prior_samples = [cols |-> {}, rows |-> <<>>]
    /\ binsize_spin = 1
    /\ binsize_mass = 1
    /\ assume_parameter_independence = FALSE
    /\ bounds = compute_bounds(posterior_samples, prior_samples, new_prior_samples)
    /\ pc = "idle"
    /\ op = "none"
    /\ ret = NoRet
    /\ warned = FALSE

Object == <<posterior_samples, prior_samples, new_prior_samples, binsize_spin,
            binsize_mass, assume_parameter_independence, bounds, pc, op, ret, warned>>

SampleSeqs == UNION { [1..n -> 0..MaxValue] : n \in 0..MaxSamples }

InitHist ==
    /\ ObjectUnused
    /\ CalcUnused
    /\ EnvUnused
    /\ sd_in = NoArrays
    /\ sd_out = NoRatio
    /\ h_in \in { [samples |-> s, low |-> lo, high |-> hi, nbins |-> nb] :
                    s \in SampleSeqs, lo \in 0..MaxValue, hi \in 0..MaxValue,
                    nb \in 1..MaxBins }
    /\ h_in.low <= h_in.high
    /\ h_out = NoHist

estimate_get_histogram_1d ==
    /\ ~h_out.called
    /\ h_out' = [called |-> TRUE,
                 hist   |-> get_histogram_1d(h_in.samples, h_in.nbins, h_in.low, h_in.high),
                 raised |-> FALSE]
    /\ UNCHANGED <<Object, Calc, Env, h_in, sd_in, sd_out>>

estimate_get_histrogram ==
    /\ ~h_out.called
    /\ h_out' = IF get_histrogram_raises(h_in.samples, h_in.nbins, h_in.low, h_in.high)
                THEN [called |-> TRUE, hist |-> <<>>, raised |-> TRUE]
                ELSE [called |-> TRUE,
                      hist   |-> get_histrogram(h_in.samples, h_in.nbins, h_in.low, h_in.high),
                      raised |-> FALSE]
    /\ UNCHANGED <<Object, Calc, Env, h_in, sd_in, sd_out>>

NextHist ==
    \/ estimate_get_histogram_1d
    \/ estimate_get_histrogram

SpecHist == InitHist /\ [][NextHist]_vars

(***************************************************************************)
(* SafeRatio on its own: _safe_divide applied to two density arrays.       *)
(***************************************************************************)
DensVals == {Zero, F(1, 2 * ZtolDen), ztol, F(1, 2), One, F(3, 1)}

InitRatio ==
    /\ ObjectUnused
    /\ CalcUnused
    /\ EnvUnused
    /\ h_in = Idle
    /\ h_out = NoHist
    /\ sd_in \in UNION { [a : [1..n -> DensVals], b : [1..n -> DensVals]] : n \in 1..MaxBins }
    /\ sd_out = NoRatio

apply_safe_divide ==
    /\ ~sd_out.called
    /\ sd_out' = [called |-> TRUE, out |-> safe_divide(sd_in.a, sd_in.b)]
    /\ UNCHANGED <<Object, Calc, Env, h_in, h_out, sd_in>>

NextRatio == apply_safe_divide

SpecRatio == InitRatio /\ [][NextRatio]_vars

(***************************************************************************)
(* BayesFactorCalculator (core/bayes.py), one parameter at a time, with    *)
(* use_kde = False and n_bootstraps = 1.  params holds the series the      *)
(* caller passes, drawn what _get_hist's unseeded samples.sample(...,      *)
(* replace = True) picked from each of them.                               *)
(***************************************************************************)
CalcVals == {0, 2, 2 * ZtolDen}
ParamSeqs == UNION { [1..n -> CalcVals] : n \in 0..MaxSamples }

InitCalc ==
    /\ ObjectUnused
    /\ EnvUnused
    /\ h_in = Idle
    /\ h_out = NoHist
    /\ sd_in = NoArrays
    /\ sd_out = NoRatio
    /\ _nbins \in 1..MaxBins
    /\ _lb = None
    /\ _ub = None
    /\ _binwidth = None
    /\ params \in [candidate_prior_param : ParamSeqs, prior_param : ParamSeqs,
                   posterior_param : ParamSeqs]
    /\ drawn = NoParams

FromNum(x) == IF x.nan THEN NaN ELSE F(x.v, 1)

\* (self._ub - self._lb) / self._nbins
setup_binwidth(lb, ub) == IF lb.nan \/ ub.nan THEN NaN ELSE F(ub.v - lb.v, _nbins)

\* samples.sample(min(n_samples, len(samples)), replace = True) with
\* n_samples >= len(samples): any len(samples) of the samples
Resamples(samples) ==
    { [i \in DOMAIN samples |-> samples[f[i]]] : f \in [DOMAIN samples -> DOMAIN samples] }

\* _get_hist on the samples drawn: np.histogram raises ValueError on a range
\* that is not finite, and the integral check uses self._binwidth
calc_get_hist_raises(samples, lb, ub) ==
    \/ lb.nan
    \/ ub.nan
    \/ ~IsCloseToOne(hist_auc(np_histogram_range(samples, _nbins, lb.v, ub.v),
                              setup_binwidth(lb, ub)))

calc_get_hist(samples, lb, ub) == np_histogram_range(samples, _nbins, lb.v, ub.v)

\* one term of the masked sum; the bins the mask drops add nothing to it
masked_term(new, post, prior) ==
    IF new # Zero /\ prior # Zero /\ post # Zero
    THEN FExp(LAdd(FLog(new), LSub(FLog(post), FLog(prior))))
    ELSE Zero

calc_bayes_factor(new_prior_hist, prior_hist, posterior_hist, binwidth) ==
    FMul(FSum([k \in DOMAIN prior_hist |->
                 masked_term(new_prior_hist[k], posterior_hist[k], prior_hist[k])]),
         binwidth)

\* np.nan_to_num(x, posinf = 0.0, neginf = 0.0)
nan_to_num(x) == IF IsFin(x) THEN x ELSE Zero

calc_likelihood_hist(prior_hist, posterior_hist, binwidth) ==
    LET raw  == [k \in DOMAIN prior_hist |->
                   nan_to_num(FExp(LSub(FLog(posterior_hist[k]), FLog(prior_hist[k]))))]
        norm == FMul(FSum(raw), binwidth)
    IN  [k \in DOMAIN raw |-> FDiv(raw[k], norm)]

calc_get_bayes_factor ==
    /\ pc = "idle"
    /\ pc' = "returned"
    /\ op' = "calculator.get_bayes_factor"
    /\ warned' = ((_lb # None /\ _lb # Zero) \/ (_ub # None /\ _ub # Zero))
    /\ LET lb == PyMin3(SeriesMin(params.candidate_prior_param), SeriesMin(params.prior_param),
                        SeriesMin(params.posterior_param))
           ub == PyMax3(SeriesMax(params.candidate_prior_param), SeriesMax(params.prior_param),
                        SeriesMax(params.posterior_param))
       IN  \E c \in Resamples(params.candidate_prior_param),
              p \in Resamples(params.prior_param),
              q \in Resamples(params.posterior_param) :
              /\ drawn' = [candidate_prior_param |-> c, prior_param |-> p,
                           posterior_param |-> q]
              /\ IF \/ calc_get_hist_raises(c, lb, ub)
                    \/ calc_get_hist_raises(p, lb, ub)
                    \/ calc_get_hist_raises(q, lb, ub)
                 THEN /\ ret' = Raised("ValueError")
                      /\ _lb' = FromNum(lb)
                      /\ _ub' = FromNum(ub)
                      /\ _binwidth' = setup_binwidth(lb, ub)
                 ELSE /\ ret' = Value(calc_bayes_factor(calc_get_hist(c, lb, ub),
                                                        calc_get_hist(p, lb, ub),
                                                        calc_get_hist(q, lb, ub),
                                                        setup_binwidth(lb, ub)))
                      /\ _lb' = None
                      /\ _ub' = None
                      /\ _binwidth' = None
    /\ UNCHANGED <<Frame, Env, h_in, h_out, sd_in, sd_out, _nbins, params>>

calc_get_likelihood_hist ==
    /\ pc = "idle"
    /\ pc' = "returned"
    /\ op' = "calculator.get_likelihood_hist"
    /\ warned' = ((_lb # None /\ _lb # Zero) \/ (_ub # None /\ _ub # Zero))
    /\ LET lb == PyMin2(SeriesMin(params.prior_param), SeriesMin(params.posterior_param))
           ub == PyMax2(SeriesMax(params.prior_param), SeriesMax(params.posterior_param))
       IN  \E p \in Resamples(params.prior_param),
              q \in Resamples(params.posterior_param) :
              /\ drawn' = [candidate_prior_param |-> <<>>, prior_param |-> p,
                           posterior_param |-> q]
              /\ IF calc_get_hist_raises(p, lb, ub) \/ calc_get_hist_raises(q, lb, ub)
                 THEN /\ ret' = Raised("ValueError")
                      /\ _lb' = FromNum(lb)
                      /\ _ub' = FromNum(ub)
                      /\ _binwidth' = setup_binwidth(lb, ub)
                 ELSE /\ ret' = Array(calc_likelihood_hist(calc_get_hist(p, lb, ub),
                                                           calc_get_hist(q, lb, ub),
                                                           setup_binwidth(lb, ub)))
                      /\ _lb' = None
                      /\ _ub' = None
                      /\ _binwidth' = None
    /\ UNCHANGED <<Frame, Env, h_in, h_out, sd_in, sd_out, _nbins, params>>

NextCalc ==
    \/ calc_get_bayes_factor
    \/ calc_get_likelihood_hist
    \/ Return

SpecCalc == InitCalc /\ [][NextCalc]_vars

(***************************************************************************)
(* BinSpec on its own: the per-parameter accessors of the object called    *)
(* with a column name, on datasets that each hold one parameter.           *)
(***************************************************************************)
BinsizeVals == {1, 3}

BinFrames == FramesOver({"m_1"}) \cup FramesOver({"a_1"})

InitBins ==
    /\ posterior_samples \in BinFrames
    /\ prior_samples \in BinFrames
    /\ new_prior_samples \in BinFrames
    /\ binsize_spin = 1
    /\ binsize_mass \in BinsizeVals
    /\ assume_parameter_independence \in BOOLEAN
    /\ bounds = compute_bounds(posterior_samples, prior_samples, new_prior_samples)
    /\ pc = "idle"
    /\ op = "none"
    /\ ret = NoRet
    /\ warned = FALSE
    /\ h_in = Idle
    /\ h_out = NoHist
    /\ sd_in = NoArrays
    /\ sd_out = NoRatio
    /\ CalcUnused
    /\ EnvUnused

\* get_nbins(col_name): what the call returns or raises
get_nbins_result(col) ==
    IF get_binsize_raises(col) THEN Raised("ValueError")
    ELSE LET b == lookup_bounds(col) IN
         IF b.err # "none" THEN Raised(b.err)
         ELSE IF b.dom.low.nan \/ b.dom.high.nan THEN Raised("ValueError")
         ELSE Value(F(domain_nbins(b.dom, get_binsize(col)), 1))

\* np.linspace(low, high, num): num points, the first low, the last high
np_linspace(low, high, num) ==
    [i \in 1..num |-> IF num = 1 THEN F(low, 1)
                      ELSE FAdd(F(low, 1), F((high - low) * (i - 1), num - 1))]

get_edges_result(col) ==
    LET nbins == get_nbins_result(col) IN
    IF nbins.kind = "error" THEN nbins
    ELSE LET b == lookup_bounds(col) IN
         IF b.err # "none" THEN Raised(b.err)
         ELSE Array(np_linspace(b.dom.low.v, b.dom.high.v, nbins.val.n + 1))

\* edges[1] - edges[0]
get_binwidth_result(col) ==
    LET edges == get_edges_result(col) IN
    IF edges.kind = "error" THEN edges
    ELSE IF Len(edges.weights) < 2 THEN Raised("IndexError")
    ELSE Value(FAdd(edges.weights[2], FMul(F(-1, 1), edges.weights[1])))

\* get_weights(col_name): ImportanceSamplingData has no get_weights_dd
\* the operations of the ImportanceSamplingData interface
InterfaceOps == {"get_likelihood_samples", "get_weights", "get_bayes_factor",
                 "get_reweighted_samples"}

\* the method an interface operation calls: <name>_1d or <name>_dd
dispatch(name, independent) ==
    [name |-> name, strategy |-> IF independent THEN "1d" ELSE "dd"]

\* the methods ISDataAssumeIndependence and ISDataGeneric define
implemented ==
    { [name |-> n, strategy |-> "1d"] : n \in InterfaceOps }
    \cup { [name |-> n, strategy |-> "dd"] :
              n \in {"get_likelihood_samples", "get_bayes_factor", "get_reweighted_samples"} }

get_weights_result(col) ==
    IF dispatch("get_weights", assume_parameter_independence) \notin implemented
    THEN Raised("AttributeError")
    ELSE IF col \notin prior_samples.cols THEN Raised("KeyError")
    ELSE IF get_nbins_result(col).kind = "error" THEN get_nbins_result(col)
    ELSE IF get_nbins(col) < 1 THEN Raised("ValueError")
    ELSE Array(get_weights_1d(col))

Called(name, col, result) ==
    /\ pc = "idle"
    /\ pc' = "returned"
    /\ op' = name
    /\ col_name' = col
    /\ ret' = result
    /\ UNCHANGED <<Frame, warned, h_in, h_out, sd_in, sd_out, Calc, rng, trials, sweep, seen>>

call_get_nbins == \E col \in Names : Called("get_nbins", col, get_nbins_result(col))
call_get_edges == \E col \in Names : Called("get_edges", col, get_edges_result(col))
call_get_binwidth == \E col \in Names : Called("get_binwidth", col, get_binwidth_result(col))
call_get_weights == \E col \in Names : Called("get_weights", col, get_weights_result(col))

NextBins ==
    \/ call_get_nbins
    \/ call_get_edges
    \/ call_get_binwidth
    \/ call_get_weights

SpecBins == InitBins /\ [][NextBins]_vars

(***************************************************************************)
(* Random numbers.  numpy's process-wide generator is the variable rng: a  *)
(* small congruential generator whose every step yields one uniform draw   *)
(* in 0..ULevels-1.  DataFrame.sample without random_state draws from it   *)
(* (one locked call per sample), with random_state = k from a fresh        *)
(* generator seeded with k.                                                *)
(***************************************************************************)
RngStates == 0..7
rng_next(s) == (5 * s + 3) % 8
rng_uniform(s) == (s * ULevels) \div 8
RandomState(seed) == seed % 8

RECURSIVE rng_draws(_, _)
rng_draws(s, n) ==
    IF n = 0 THEN <<>>
    ELSE <<rng_uniform(rng_next(s))>> \o rng_draws(rng_next(s), n - 1)

RECURSIVE rng_after(_, _)
rng_after(s, n) == IF n = 0 THEN s ELSE rng_after(rng_next(s), n - 1)

\* df.sample(n = len(us), replace = True): rows picked uniformly by position
sample_unweighted(df, us) ==
    [cols |-> df.cols,
     rows |-> [i \in DOMAIN us |-> df.rows[((us[i] * Len(df.rows)) \div ULevels) + 1]]]

\* df.sample(n = len(df), replace = True), drawing from generator state s
bootstrap_sample(df, s) == sample_unweighted(df, rng_draws(s, Len(df.rows)))

(***************************************************************************)
(* Bootstrap trials: get_bayes_factor_dd(bootstrapping = True)             *)
(* (generic.py), run n at a time on the threads of multithread_run         *)
(* (utils/parallel.py).  A trial makes three sample calls, prior,          *)
(* posterior, candidate prior, in argument order, then computes.           *)
(***************************************************************************)
MaxTrials == 2

NoFrame == [cols |-> {}, rows |-> <<>>]
NewTrial == [pc |-> "start", prior |-> NoFrame, posterior |-> NoFrame, bf |-> NoRet]
NoTrials == <<>>

trial_bayes_factor(prior, posterior, new_prior) ==
    IF get_bayes_factor_dd_error # "none" THEN Raised(get_bayes_factor_dd_error)
    ELSE Value(_get_bayes_factor_dd(prior, posterior, new_prior))

\* the trials are submitted to the pool
sample_bayes_factor ==
    /\ pc = "idle"
    /\ sweep.pc \in {"none", "sampling"}
    /\ ~assume_parameter_independence
    /\ \E n \in 1..MaxTrials :
         /\ sweep.pc = "sampling" => n = sweep.n_bootstrapping
         /\ trials' = [threads |-> [t \in 1..n |-> NewTrial], results |-> <<>>, seed |-> rng]
    /\ pc' = "running"
    /\ op' = "sample_bayes_factor"
    /\ UNCHANGED <<Frame, ret, warned, h_in, h_out, sd_in, sd_out, Calc, col_name, rng,
                   sweep, seen>>

TrialStep(t, next) ==
    /\ pc = "running"
    /\ t \in DOMAIN trials.threads
    /\ trials' = [trials EXCEPT !.threads[t] = next]
    /\ UNCHANGED <<Frame, pc, op, ret, warned, h_in, h_out, sd_in, sd_out, Calc,
                   col_name, sweep, seen>>

trial_sample_prior(t) ==
    /\ pc = "running" /\ t \in DOMAIN trials.threads
    /\ trials.threads[t].pc = "start"
    /\ rng' = rng_after(rng, Len(prior_samples.rows))
    /\ TrialStep(t, [trials.threads[t] EXCEPT !.pc = "prior",
                                              !.prior = bootstrap_sample(prior_samples, rng)])

trial_sample_posterior(t) ==
    /\ pc = "running" /\ t \in DOMAIN trials.threads
    /\ trials.threads[t].pc = "prior"
    /\ rng' = rng_after(rng, Len(posterior_samples.rows))
    /\ TrialStep(t, [trials.threads[t] EXCEPT
                        !.pc = "posterior",
                        !.posterior = bootstrap_sample(posterior_samples, rng)])

\* the third sample call and _get_bayes_factor_dd on the three resamples
trial_sample_new_prior(t) ==
    /\ pc = "running" /\ t \in DOMAIN trials.threads
    /\ trials.threads[t].pc = "posterior"
    /\ rng' = rng_after(rng, Len(new_prior_samples.rows))
    /\ TrialStep(t, [trials.threads[t] EXCEPT
                        !.pc = "computed",
                        !.bf = trial_bayes_factor(trials.threads[t].prior,
                                                  trials.threads[t].posterior,
                                                  bootstrap_sample(new_prior_samples, rng))])

\* as_completed: the results are gathered in the order the trials finish
trial_complete(t) ==
    /\ pc = "running" /\ t \in DOMAIN trials.threads
    /\ trials.threads[t].pc = "computed"
    /\ trials' = [trials EXCEPT !.threads[t].pc = "done",
                                !.results = Append(@, trials.threads[t].bf)]
    /\ UNCHANGED <<Frame, pc, op, ret, warned, h_in, h_out, sd_in, sd_out, Calc,
                   col_name, rng, sweep, seen>>

\* a result list that leaves out the calls that raised
gathered_dropping_failures(results) ==
    LET ok == SelectSeq(results, LAMBDA r : r.kind # "error")
    IN  Array([i \in DOMAIN ok |-> ok[i].val])

\* future.result() re-raises what a trial raised
gathered(results) ==
    IF \E i \in DOMAIN results : results[i].kind = "error"
    THEN Raised((results[CHOOSE i \in DOMAIN results :
                           /\ results[i].kind = "error"
                           /\ \A j \in 1..(i - 1) : results[j].kind # "error"]).err)
    ELSE Array([i \in DOMAIN results |-> results[i].val])

sample_bayes_factor_join ==
    /\ pc = "running"
    /\ \A t \in DOMAIN trials.threads : trials.threads[t].pc = "done"
    /\ pc' = "returned"
    /\ ret' = gathered(trials.results)
    /\ UNCHANGED <<Frame, op, warned, h_in, h_out, sd_in, sd_out, Calc, col_name, rng,
                   trials, sweep, seen>>

InitBoot ==
    /\ posterior_samples \in FramesOver({"m_1"})
    /\ prior_samples \in FramesOver({"m_1"})
    /\ new_prior_samples \in FramesOver({"m_1"})
    /\ binsize_spin = 1
    /\ binsize_mass = 1
    /\ assume_parameter_independence = FALSE
    /\ bounds = compute_bounds(posterior_samples, prior_samples, new_prior_samples)
    /\ pc = "idle"
    /\ op = "none"
    /\ ret = NoRet
    /\ warned = FALSE
    /\ h_in = Idle
    /\ h_out = NoHist
    /\ sd_in = NoArrays
    /\ sd_out = NoRatio
    /\ CalcUnused
    /\ col_name = "none"
    /\ rng \in RngStates
    /\ trials = NoTrials
    /\ sweep = NoSweep
    /\ seen = <<>>

NextBoot ==
    \/ sample_bayes_factor
    \/ \E t \in 1..MaxTrials : trial_sample_prior(t)
    \/ \E t \in 1..MaxTrials : trial_sample_posterior(t)
    \/ \E t \in 1..MaxTrials : trial_sample_new_prior(t)
    \/ \E t \in 1..MaxTrials : trial_complete(t)
    \/ sample_bayes_factor_join

SpecBoot == InitBoot /\ [][NextBoot]_vars

(***************************************************************************)
(* BayesFactorSweep: get_bayes_factor_over_escape_velocity                 *)
(* (core/forward/bayes_factor.py) with kicks given as one Series.          *)
(* A threshold t is kept exactly as [e, v] with t^e = v, so that linearly  *)
(* and logarithmically spaced thresholds compare exactly with the (positive)*)
(* kicks; floating-point rounding of 10 ** log10(x) is not modelled.       *)
(***************************************************************************)
KickVals == {1, 4}

RECURSIVE FPow(_, _)
FPow(x, e) == IF e = 0 THEN One ELSE FMul(x, FPow(x, e - 1))

RECURSIVE InsertSorted(_, _)
InsertSorted(x, s) ==
    IF s = <<>> THEN <<x>>
    ELSE IF FLe(x, Head(s)) THEN <<x>> \o s
    ELSE <<Head(s)>> \o InsertSorted(x, Tail(s))

RECURSIVE np_sort(_)
np_sort(s) == IF s = <<>> THEN <<>> ELSE InsertSorted(Head(s), np_sort(Tail(s)))

\* linear interpolation at position (n - 1) * qn / qd of the sorted values:
\* Series.quantile(qn / qd), np.percentile, np.median
interpolated(s, qn, qd) ==
    LET sorted == np_sort(s)
        n      == Len(s)
        j      == ((n - 1) * qn) \div qd
        frac   == F(((n - 1) * qn) % qd, qd)
    IN  IF n = 0 \/ \E i \in DOMAIN s : ~IsFin(s[i]) THEN NaN
        ELSE IF j + 2 > n THEN sorted[j + 1]
        ELSE FAdd(sorted[j + 1],
                  FMul(FAdd(sorted[j + 2], FMul(F(-1, 1), sorted[j + 1])), frac))

np_percentile(s, q) == interpolated(s, q, 100)

\* the middle of the values as they were collected
np_median_unsorted(s) == IF s = <<>> THEN NaN ELSE s[(Len(s) + 1) \div 2]

np_median(s) == interpolated(s, 50, 100)

FromInts(s) == [i \in DOMAIN s |-> F(s[i], 1)]

\* 1 / len(kicks) with no kicks
_extract_kick_thresholds_raises(kicks) == Len(kicks) = 0

\* np.linspace(k_lb, k_ub, n_bins) or np.logspace(log10 k_lb, log10 k_ub, n_bins)
spaced(k_lb, k_ub, n_bins, log_scale) ==
    [i \in 1..n_bins |->
        IF n_bins = 1 THEN [e |-> 1, v |-> k_lb]
        ELSE IF log_scale
             THEN [e |-> n_bins - 1,
                   v |-> FMul(FPow(k_lb, n_bins - i), FPow(k_ub, i - 1))]
             ELSE [e |-> 1,
                   v |-> FAdd(k_lb, FMul(FAdd(k_ub, FMul(F(-1, 1), k_lb)),
                                         F(i - 1, n_bins - 1)))]]

_extract_kick_thresholds(kicks, n_bins, log_scale) ==
    LET k_lb == interpolated(FromInts(kicks), 1, Len(kicks))
        k_ub == F(SeqMax(kicks), 1)
    IN  spaced(k_lb, k_ub, n_bins, log_scale)

\* kicks <= v_esc, and the strict kicks < k
kick_lt(k, v_esc) == ~FLe(v_esc.v, FPow(F(k, 1), v_esc.e))
kick_le(k, v_esc) == FLe(FPow(F(k, 1), v_esc.e), v_esc.v)

RECURSIVE SelectRows(_, _)
SelectRows(rows, keep) ==
    IF rows = <<>> THEN <<>>
    ELSE (IF Head(keep) THEN <<Head(rows)>> ELSE <<>>) \o SelectRows(Tail(rows), Tail(keep))

\* new_prior.loc[kicks <= v_esc]
filtered_new_prior(new_prior, kicks, v_esc) ==
    [cols |-> new_prior.cols,
     rows |-> SelectRows(new_prior.rows, [i \in DOMAIN kicks |-> kick_le(kicks[i], v_esc)])]

\* how many rows the padding draws
padding(new_prior, kicks, v_esc, least_sample_count) ==
    LET n == Len(filtered_new_prior(new_prior, kicks, v_esc).rows)
    IN  IF n < least_sample_count THEN least_sample_count - n ELSE 0

\* sampling from no rows: ValueError
_prepare_raises(new_prior, kicks, v_esc, least_sample_count) ==
    /\ filtered_new_prior(new_prior, kicks, v_esc).rows = <<>>
    /\ least_sample_count > 0

\* padding that resamples the whole candidate prior
_prepare_padding_from_all(new_prior, kicks, v_esc, least_sample_count, s) ==
    LET kept == filtered_new_prior(new_prior, kicks, v_esc)
        n    == padding(new_prior, kicks, v_esc, least_sample_count)
    IN  [cols |-> kept.cols,
         rows |-> kept.rows \o sample_unweighted(new_prior, rng_draws(s, n)).rows]

\* pd.concat([new_prior, new_prior.sample(least_sample_count - len(new_prior),
\* replace = True)], ignore_index = True), drawing from generator state s
_prepare_new_prior_samples_for_v_esc(new_prior, kicks, v_esc, least_sample_count, s) ==
    LET kept == filtered_new_prior(new_prior, kicks, v_esc)
        n    == padding(new_prior, kicks, v_esc, least_sample_count)
    IN  [cols |-> kept.cols,
         rows |-> kept.rows \o sample_unweighted(kept, rng_draws(s, n)).rows]

SweepName == "get_bayes_factor_over_escape_velocity"

\* the arguments of one sweep call: candidate prior, its kicks, the config
SweepFrames == { df \in FramesOver({"m_1"}) : Len(df.rows) \in {0, MaxRows} }

SweepCalls ==
    { [pc |-> "start", new_prior |-> df, kicks |-> ks, n_bins |-> nb,
       is_kick_in_log_scale |-> lg, least_new_prior_sample_count |-> least,
       n_bootstrapping |-> MaxTrials, ref_bayes_factor |-> One,
       v_escs |-> <<>>, i |-> 1, _new_prior |-> NoFrame, _bf_samples |-> <<>>] :
        df \in FramesOver({"m_1"}),
        ks \in UNION { [1..n -> KickVals] : n \in 0..MaxRows },
        nb \in 1..MaxBins, lg \in BOOLEAN, least \in 1..MaxSamples }

InitSweep ==
    /\ posterior_samples \in SweepFrames
    /\ prior_samples \in SweepFrames
    /\ new_prior_samples = NoFrame
    /\ binsize_spin = 1
    /\ binsize_mass = 1
    /\ assume_parameter_independence = FALSE
    /\ bounds = compute_bounds(posterior_samples, prior_samples, new_prior_samples)
    /\ pc = "idle"
    /\ op = "none"
    /\ ret = NoRet
    /\ warned = FALSE
    /\ h_in = Idle
    /\ h_out = NoHist
    /\ sd_in = NoArrays
    /\ sd_out = NoRatio
    /\ CalcUnused
    /\ col_name = "none"
    /\ rng \in {0, 3}
    /\ trials = NoTrials
    /\ sweep \in SweepCalls
    /\ Len(sweep.kicks) = Len(sweep.new_prior.rows)
    /\ seen = <<>>

SweepFrame == <<posterior_samples, prior_samples, binsize_spin, binsize_mass,
                assume_parameter_independence>>

\* the caller's candidate prior after a call that filters it in place
new_prior_dropped_in_place(new_prior, kicks, v_esc) == filtered_new_prior(new_prior, kicks, v_esc)

\* the caller's candidate prior after _prepare_new_prior_samples_for_v_esc:
\* new_prior.loc[...] and pd.concat build new frames and only the local
\* name is rebound
new_prior_after_prepare(new_prior, kicks, v_esc) == new_prior

\* v_escs = _extract_kick_thresholds(...)
sweep_extract_kick_thresholds ==
    /\ sweep.pc = "start"
    /\ pc = "idle"
    /\ op' = SweepName
    /\ IF _extract_kick_thresholds_raises(sweep.kicks)
       THEN /\ sweep' = [sweep EXCEPT !.pc = "raised"]
            /\ pc' = "returned"
            /\ ret' = Raised("ZeroDivisionError")
       ELSE /\ sweep' = [sweep EXCEPT
                           !.pc = "loop",
                           !.v_escs = _extract_kick_thresholds(sweep.kicks, sweep.n_bins,
                                                               sweep.is_kick_in_log_scale)]
            /\ UNCHANGED <<pc, ret>>
    /\ UNCHANGED <<SweepFrame, new_prior_samples, bounds, warned, h_in, h_out, sd_in,
                   sd_out, Calc, col_name, rng, trials, seen>>

\* one pass of the loop up to the construction of ISData: the candidate
\* prior is filtered and padded and the object is built on the result
sweep_prepare ==
    /\ sweep.pc = "loop"
    /\ sweep.i <= Len(sweep.v_escs)
    /\ LET v_esc == sweep.v_escs[sweep.i]
           least == sweep.least_new_prior_sample_count
       IN  IF _prepare_raises(sweep.new_prior, sweep.kicks, v_esc, least)
           THEN /\ sweep' = [sweep EXCEPT !.pc = "raised"]
                /\ pc' = "returned"
                /\ ret' = Raised("ValueError")
                /\ UNCHANGED <<new_prior_samples, bounds, rng>>
           ELSE LET _new_prior == _prepare_new_prior_samples_for_v_esc(
                                      sweep.new_prior, sweep.kicks, v_esc, least, rng)
                IN  /\ rng' = rng_after(rng, padding(sweep.new_prior, sweep.kicks, v_esc, least))
                    /\ new_prior_samples' = _new_prior
                    /\ bounds' = compute_bounds(posterior_samples, prior_samples, _new_prior)
                    /\ sweep' = [sweep EXCEPT
                                   !.pc = "sampling",
                                   !._new_prior = _new_prior,
                                   !.new_prior = new_prior_after_prepare(
                                                     sweep.new_prior, sweep.kicks, v_esc)]
                    /\ UNCHANGED <<pc, ret>>
    /\ UNCHANGED <<SweepFrame, op, warned, h_in, h_out, sd_in, sd_out, Calc, col_name,
                   trials, seen>>

\* _bfs = [_bf / bfc.ref_bayes_factor for _bf in _bfs]; a failed trial ends the sweep
sweep_collect ==
    /\ sweep.pc = "sampling"
    /\ pc = "returned"
    /\ IF ret.kind = "error"
       THEN /\ sweep' = [sweep EXCEPT !.pc = "raised"]
            /\ op' = SweepName
            /\ UNCHANGED <<pc, ret>>
       ELSE /\ sweep' = [sweep EXCEPT
                           !.pc = "loop",
                           !.i = @ + 1,
                           !._bf_samples =
                               Append(@, [k \in DOMAIN ret.weights |->
                                            FDiv(ret.weights[k], sweep.ref_bayes_factor)])]
            /\ pc' = "idle"
            /\ op' = SweepName
            /\ ret' = NoRet
    /\ UNCHANGED <<Frame, warned, h_in, h_out, sd_in, sd_out, Calc, col_name, rng,
                   trials, seen>>

sweep_result ==
    [kind |-> "dict", val |-> Zero, err |-> "none", idx |-> <<>>, weights |-> <<>>,
     escape_velocity      |-> sweep.v_escs,
     bayes_factor_samples |-> sweep._bf_samples,
     bayes_factor_median  |-> [k \in DOMAIN sweep._bf_samples |-> np_median(sweep._bf_samples[k])],
     bayes_factor_low     |-> [k \in DOMAIN sweep._bf_samples |->
                                 np_percentile(sweep._bf_samples[k], 5)],
     bayes_factor_high    |-> [k \in DOMAIN sweep._bf_samples |->
                                 np_percentile(sweep._bf_samples[k], 95)]]

sweep_return ==
    /\ sweep.pc = "loop"
    /\ sweep.i > Len(sweep.v_escs)
    /\ sweep' = [sweep EXCEPT !.pc = "done"]
    /\ pc' = "returned"
    /\ ret' = sweep_result
    /\ UNCHANGED <<Frame, op, warned, h_in, h_out, sd_in, sd_out, Calc, col_name, rng,
                   trials, seen>>

NextSweep ==
    \/ sweep_extract_kick_thresholds
    \/ sweep_prepare
    \/ sample_bayes_factor
    \/ \E t \in 1..MaxTrials : trial_sample_prior(t)
    \/ \E t \in 1..MaxTrials : trial_sample_posterior(t)
    \/ \E t \in 1..MaxTrials : trial_sample_new_prior(t)
    \/ \E t \in 1..MaxTrials : trial_complete(t)
    \/ sample_bayes_factor_join
    \/ sweep_collect
    \/ sweep_return

SpecSweep == InitSweep /\ [][NextSweep]_vars

(***************************************************************************)
(* plot_bayes_factor_over_kick (visualization/forward.py) on ISData and    *)
(* get_bayes_factor of core/forward/bayes.py.  The candidate prior is a    *)
(* dict of Series over the columns of the prior, kept as a frame; nbins,   *)
(* 70 in the code, is MaxBins here.                                        *)
(***************************************************************************)
PlotName == "plot_bayes_factor_over_kick"

fwd_nbins == MaxBins

\* get_histrogram(samples, data.bounds[col], nbins) raises ValueError
fwd_hist_raises(series, col) ==
    \/ legacy_bounds[col].low.nan \/ legacy_bounds[col].high.nan
    \/ get_histrogram_raises(series, fwd_nbins, legacy_bounds[col].low.v,
                             legacy_bounds[col].high.v)

fwd_hist(series, col) ==
    get_histrogram(series, fwd_nbins, legacy_bounds[col].low.v, legacy_bounds[col].high.v)

\* np.where(prior_hist > ztol, np.exp(np.log(c) + np.log(p) - np.log(prior_hist)), 0.0)
where_term(candidate, post, prior) ==
    IF FGt(prior, ztol) THEN FExp(LAdd(FLog(candidate), LSub(FLog(post), FLog(prior))))
    ELSE Zero

fwd_contribution(col) ==
    LET prior_hist           == fwd_hist(Column(prior_samples, col), col)
        posterior_hist       == fwd_hist(Column(posterior_samples, col), col)
        candidate_prior_hist == fwd_hist(Column(new_prior_samples, col), col)
        binwidth == F(legacy_bounds[col].high.v - legacy_bounds[col].low.v, fwd_nbins)
    IN  FMul(FSum([k \in DOMAIN prior_hist |->
                     where_term(candidate_prior_hist[k], posterior_hist[k], prior_hist[k])]),
             binwidth)

\* weights *= rv.pdf(data.prior[col]) over the candidate columns
fwd_prior_weights ==
    [i \in 1..Len(prior_samples.rows) |->
        FProd([j \in 1..Len(ControlledSeq) |->
                 LET col == ControlledSeq[j]
                 IN  rv_histogram_pdf(
                         safe_divide(fwd_hist(Column(new_prior_samples, col), col),
                                     fwd_hist(Column(prior_samples, col), col)),
                         legacy_bounds[col].low.v, legacy_bounds[col].high.v,
                         prior_samples.rows[i][col])])]

\* a histogram that fails its integral check, or data.prior.sample(weights = ...)
\* on weights that sum to zero
fwd_get_bayes_factor_raises ==
    \/ \E col \in new_prior_samples.cols :
         \/ fwd_hist_raises(Column(prior_samples, col), col)
         \/ fwd_hist_raises(Column(posterior_samples, col), col)
         \/ fwd_hist_raises(Column(new_prior_samples, col), col)
    \/ sample_raises(fwd_prior_weights)

\* the candidate prior covers every column: no correlated parameter is left
fwd_get_bayes_factor ==
    FProd([j \in 1..Len(ControlledSeq) |-> fwd_contribution(ControlledSeq[j])])

\* kicks.quantile(min_nk / len(kicks)): no kicks, or a quantile above 1
plot_thresholds_error(kicks, min_nk) ==
    IF Len(kicks) = 0 THEN "ZeroDivisionError"
    ELSE IF min_nk > Len(kicks) THEN "ValueError"
    ELSE "none"

plot_thresholds(kicks, n_bounds, min_nk) ==
    spaced(interpolated(FromInts(kicks), min_nk, Len(kicks)), F(SeqMax(kicks), 1),
           n_bounds, TRUE)

\* idx = kicks < k; {col: ds[idx] for col, ds in candidate_prior.items()}
plot_candidate_prior(candidate_prior, kicks, k) ==
    [cols |-> candidate_prior.cols,
     rows |-> SelectRows(candidate_prior.rows, [i \in DOMAIN kicks |-> kick_lt(kicks[i], k)])]

PlotCalls ==
    { [pc |-> "start", candidate_prior |-> df, kicks |-> ks, n_bounds |-> nb,
       min_nk |-> mn, _ks |-> <<>>, i |-> 1, bfs |-> <<>>] :
        df \in FramesOver({"m_1"}),
        ks \in UNION { [1..n -> KickVals] : n \in 0..MaxRows },
        nb \in 1..MaxBins, mn \in 1..MaxSamples }

InitPlot ==
    /\ posterior_samples \in FramesOver({"m_1"})
    /\ prior_samples \in FramesOver({"m_1"})
    /\ new_prior_samples = NoFrame
    /\ binsize_spin = 1
    /\ binsize_mass = 1
    /\ assume_parameter_independence = FALSE
    /\ bounds = compute_bounds(posterior_samples, prior_samples, new_prior_samples)
    /\ pc = "idle"
    /\ op = "none"
    /\ ret = NoRet
    /\ warned = FALSE
    /\ h_in = Idle
    /\ h_out = NoHist
    /\ sd_in = NoArrays
    /\ sd_out = NoRatio
    /\ CalcUnused
    /\ col_name = "none"
    /\ rng = 0
    /\ trials = NoTrials
    /\ sweep \in PlotCalls
    /\ Len(sweep.kicks) = Len(sweep.candidate_prior.rows)
    /\ seen = <<>>

PlotStep ==
    /\ op' = PlotName
    /\ UNCHANGED <<SweepFrame, bounds, warned, h_in, h_out, sd_in, sd_out, Calc,
                   col_name, rng, trials, seen>>

plot_extract_thresholds ==
    /\ sweep.pc = "start"
    /\ pc = "idle"
    /\ IF plot_thresholds_error(sweep.kicks, sweep.min_nk) # "none"
       THEN /\ sweep' = [sweep EXCEPT !.pc = "raised"]
            /\ pc' = "returned"
            /\ ret' = Raised(plot_thresholds_error(sweep.kicks, sweep.min_nk))
       ELSE /\ sweep' = [sweep EXCEPT
                           !.pc = "loop",
                           !._ks = plot_thresholds(sweep.kicks, sweep.n_bounds, sweep.min_nk)]
            /\ UNCHANGED <<pc, ret>>
    /\ UNCHANGED new_prior_samples
    /\ PlotStep

\* the candidate prior below the threshold is handed to ISData
plot_filter ==
    /\ sweep.pc = "loop"
    /\ sweep.i <= Len(sweep._ks)
    /\ new_prior_samples' = plot_candidate_prior(sweep.candidate_prior, sweep.kicks,
                                                 sweep._ks[sweep.i])
    /\ sweep' = [sweep EXCEPT !.pc = "computing"]
    /\ UNCHANGED <<pc, ret>>
    /\ PlotStep

\* bfs.append(get_bayes_factor(data))
plot_get_bayes_factor ==
    /\ sweep.pc = "computing"
    /\ IF fwd_get_bayes_factor_raises
       THEN /\ sweep' = [sweep EXCEPT !.pc = "raised"]
            /\ pc' = "returned"
            /\ ret' = Raised("ValueError")
       ELSE /\ sweep' = [sweep EXCEPT !.pc = "loop", !.i = @ + 1,
                                      !.bfs = Append(@, fwd_get_bayes_factor)]
            /\ UNCHANGED <<pc, ret>>
    /\ UNCHANGED new_prior_samples
    /\ PlotStep

\* interpolate.interp1d needs two points at least; the axes are returned
plot_return ==
    /\ sweep.pc = "loop"
    /\ sweep.i > Len(sweep._ks)
    /\ pc' = "returned"
    /\ IF Len(sweep.bfs) < 2
       THEN sweep' = [sweep EXCEPT !.pc = "raised"] /\ ret' = Raised("ValueError")
       ELSE sweep' = [sweep EXCEPT !.pc = "done"] /\ ret' = Array(sweep.bfs)
    /\ UNCHANGED new_prior_samples
    /\ PlotStep

NextPlot ==
    \/ plot_extract_thresholds
    \/ plot_filter
    \/ plot_get_bayes_factor
    \/ plot_return

SpecPlot == InitPlot /\ [][NextPlot]_vars

(***************************************************************************)
(* BayesFactorCalculator._get_kick_bounds (core/bayes.py): the kick range  *)
(* of the sweep over one or two black holes.  A candidate prior is         *)
(* [given, kicks]: whether it was passed, and its kick column.             *)
(***************************************************************************)
NotGiven == [given |-> FALSE, kicks |-> <<>>]

KickPriors ==
    {NotGiven} \cup
    { [given |-> TRUE, kicks |-> ks] :
        ks \in UNION { [1..n -> KickVals] : n \in 0..(MaxRows + 1) } }

\* sort_values(ascending = True)
RECURSIVE sort_values(_)
sort_values(s) ==
    IF s = <<>> THEN <<>>
    ELSE LET m    == SeqMin(s)
             at   == CHOOSE i \in DOMAIN s : s[i] = m
             rest == [i \in 1..(Len(s) - 1) |-> IF i < at THEN s[i] ELSE s[i + 1]]
         IN  <<m>> \o sort_values(rest)

\* .iloc[least_n_samples] past the end raises IndexError
_get_kick_bounds_error(bh1, bh2, least_n_samples) ==
    IF ~bh1.given /\ ~bh2.given THEN "ValueError"
    ELSE IF \/ (bh1.given /\ least_n_samples >= Len(bh1.kicks))
            \/ (bh2.given /\ least_n_samples >= Len(bh2.kicks))
         THEN "IndexError"
    ELSE "none"

lb_kick_of(bh, least_n_samples) == sort_values(bh.kicks)[least_n_samples + 1]

_get_kick_bounds(bh1, bh2, least_n_samples) ==
    [lb_kick |-> IF ~bh1.given THEN lb_kick_of(bh2, least_n_samples)
                 ELSE IF ~bh2.given THEN lb_kick_of(bh1, least_n_samples)
                 ELSE SeqMin(<<lb_kick_of(bh1, least_n_samples),
                               lb_kick_of(bh2, least_n_samples)>>),
     ub_kick |-> SeqMax(bh1.kicks \o bh2.kicks)]

InitKick ==
    /\ ObjectUnused
    /\ CalcUnused
    /\ h_in = Idle
    /\ h_out = NoHist
    /\ sd_in = NoArrays
    /\ sd_out = NoRatio
    /\ col_name = "none"
    /\ rng = 0
    /\ trials = NoTrials
    /\ seen = <<>>
    /\ sweep \in { [pc |-> "kick_bounds", candidate_prior_bh1 |-> b1,
                    candidate_prior_bh2 |-> b2, least_n_samples |-> n,
                    lb_kick |-> 0, ub_kick |-> 0, raised |-> "none"] :
                    b1 \in KickPriors, b2 \in KickPriors, n \in 0..MaxSamples }

call_get_kick_bounds ==
    /\ sweep.pc = "kick_bounds"
    /\ LET bh1 == sweep.candidate_prior_bh1
           bh2 == sweep.candidate_prior_bh2
           n   == sweep.least_n_samples
       IN  IF _get_kick_bounds_error(bh1, bh2, n) # "none"
           THEN sweep' = [sweep EXCEPT !.pc = "raised",
                                       !.raised = _get_kick_bounds_error(bh1, bh2, n)]
           ELSE sweep' = [sweep EXCEPT !.pc = "bounded",
                                       !.lb_kick = _get_kick_bounds(bh1, bh2, n).lb_kick,
                                       !.ub_kick = _get_kick_bounds(bh1, bh2, n).ub_kick]
    /\ UNCHANGED <<Object, Calc, h_in, h_out, sd_in, sd_out, col_name, rng, trials, seen>>

NextKick == call_get_kick_bounds

SpecKick == InitKick /\ [][NextKick]_vars

(***************************************************************************)
(* Seeded calls.  get_reweighted_samples and the get_bayes_factor of       *)
(* forward/resampler.py pass random_state to DataFrame.sample, which then  *)
(* draws from a generator of its own; in between, bootstrapped calls draw  *)
(* from the process-wide generator.  seen keeps the seed of the run and    *)
(* the first result each operation returned.                               *)
(***************************************************************************)
SeedVals == {0, 3}

SeedFrames(cols) == { df \in FramesOver(cols) : Len(df.rows) = MaxRows }

\* draws that come from the process-wide generator whatever the seed
global_draws(random_state, n) == rng_draws(rng + 0 * random_state, n)

\* the draws of DataFrame.sample(n, random_state = random_state)
seeded_draws(random_state, n) == rng_draws(RandomState(random_state), n)

reweighted(w, us) ==
    IF sample_raises(w) THEN Raised("ValueError") ELSE Samples(sample_rows(w, us), w)

get_reweighted_samples_result(random_state) ==
    LET us == seeded_draws(random_state, Len(posterior_samples.rows)) IN
    IF assume_parameter_independence
    THEN IF get_bayes_factor_1d_raises THEN Raised("ValueError")
         ELSE reweighted(posterior_weights_1d, us)
    ELSE IF posterior_sample_weights_dd_error # "none"
         THEN Raised(posterior_sample_weights_dd_error)
         ELSE reweighted(get_posterior_sample_weights_dd, us)

resampler_get_bayes_factor_result(random_state) ==
    IF legacy_get_bayes_factor_raises THEN Raised("ValueError")
    ELSE Value(legacy_get_bayes_factor(seeded_draws(random_state, Len(prior_samples.rows))))

InitSeed ==
    /\ posterior_samples \in SeedFrames(Columns)
    /\ prior_samples \in SeedFrames(Columns)
    /\ new_prior_samples \in SeedFrames({"m_1"})
    /\ binsize_spin = 1
    /\ binsize_mass = 1
    /\ assume_parameter_independence \in BOOLEAN
    /\ bounds = compute_bounds(posterior_samples, prior_samples, new_prior_samples)
    /\ pc = "idle"
    /\ op = "none"
    /\ ret = NoRet
    /\ warned = FALSE
    /\ h_in = Idle
    /\ h_out = NoHist
    /\ sd_in = NoArrays
    /\ sd_out = NoRatio
    /\ CalcUnused
    /\ col_name = "none"
    /\ rng = 0
    /\ trials = NoTrials
    /\ sweep = NoSweep
    /\ seen \in { [random_state |-> rs, first |-> <<>>] : rs \in SeedVals }

SeededCall(name, result) ==
    /\ pc = "idle"
    /\ pc' = "returned"
    /\ op' = name
    /\ ret' = result
    /\ UNCHANGED <<Frame, warned, h_in, h_out, sd_in, sd_out, Calc, col_name, rng, trials,
                   sweep, seen>>

get_reweighted_samples_seeded ==
    SeededCall("get_reweighted_samples", get_reweighted_samples_result(seen.random_state))

resampler_get_bayes_factor_seeded ==
    SeededCall("resampler.get_bayes_factor",
               resampler_get_bayes_factor_result(seen.random_state))

\* get_bayes_factor_dd(bootstrapping = True) called on its own: three
\* samples from the process-wide generator
get_bayes_factor_dd_bootstrapping ==
    /\ pc = "idle"
    /\ pc' = "returned"
    /\ op' = "get_bayes_factor_dd(bootstrapping)"
    /\ LET s1 == rng_after(rng, Len(prior_samples.rows))
           s2 == rng_after(s1, Len(posterior_samples.rows))
       IN  /\ ret' = trial_bayes_factor(bootstrap_sample(prior_samples, rng),
                                        bootstrap_sample(posterior_samples, s1),
                                        bootstrap_sample(new_prior_samples, s2))
           /\ rng' = rng_after(s2, Len(new_prior_samples.rows))
    /\ UNCHANGED <<Frame, warned, h_in, h_out, sd_in, sd_out, Calc, col_name, trials,
                   sweep, seen>>

\* the caller takes the result; the first result of a seeded or
\* non-bootstrapped operation is remembered
seed_return ==
    /\ pc = "returned"
    /\ pc' = "idle"
    /\ seen' = IF op \in DOMAIN seen.first \/ op = "get_bayes_factor_dd(bootstrapping)"
               THEN seen
               ELSE [seen EXCEPT !.first = [o \in DOMAIN seen.first \cup {op} |->
                                              IF o = op THEN ret ELSE seen.first[o]]]
    /\ op' = "none"
    /\ ret' = NoRet
    /\ warned' = FALSE
    /\ UNCHANGED <<Frame, h_in, h_out, sd_in, sd_out, Calc, col_name, rng, trials, sweep>>

NextSeed ==
    \/ get_bayes_factor
    \/ get_reweighted_samples_seeded
    \/ resampler_get_bayes_factor_seeded
    \/ get_bayes_factor_dd_bootstrapping
    \/ seed_return

SpecSeed == InitSeed /\ [][NextSeed]_vars

(***************************************************************************)
(* The caller's view.  A caller either runs a sweep over its datasets or   *)
(* holds an ImportanceSamplingData built from them and calls it directly.  *)
(* The dataclass keeps references, so posterior_samples and prior_samples  *)
(* are the caller's frames in both cases; the candidate prior is           *)
(* sweep.new_prior during a sweep (new_prior_samples is then the frame     *)
(* prepared for the current threshold) and new_prior_samples otherwise.    *)
(***************************************************************************)
InitDirect ==
    /\ posterior_samples \in SeedFrames({"m_1"})
    /\ prior_samples \in SeedFrames({"m_1"})
    /\ new_prior_samples \in SeedFrames({"m_1"})
    /\ binsize_spin = 1
    /\ binsize_mass = 1
    /\ assume_parameter_independence \in BOOLEAN
    /\ bounds = compute_bounds(posterior_samples, prior_samples, new_prior_samples)
    /\ pc = "idle"
    /\ op = "none"
    /\ ret = NoRet
    /\ warned = FALSE
    /\ h_in = Idle
    /\ h_out = NoHist
    /\ sd_in = NoArrays
    /\ sd_out = NoRatio
    /\ CalcUnused
    /\ col_name = "none"
    /\ rng = 0
    /\ trials = NoTrials
    /\ sweep = NoSweep
    /\ seen = [random_state |-> 0, first |-> <<>>]

InitReadOnly == (InitSweep /\ rng = 0) \/ InitDirect

direct_get_bayes_factor == sweep.pc = "none" /\ get_bayes_factor
direct_get_weights == sweep.pc = "none" /\ call_get_weights
direct_get_reweighted_samples == sweep.pc = "none" /\ get_reweighted_samples_seeded
direct_return == sweep.pc = "none" /\ Return

NextReadOnly ==
    \/ NextSweep
    \/ direct_get_bayes_factor
    \/ direct_get_weights
    \/ direct_get_reweighted_samples
    \/ direct_return

SpecReadOnly == InitReadOnly /\ [][NextReadOnly]_vars

(***************************************************************************)
(* The parallel helpers on their own: multithread_run (utils/parallel.py)  *)
(* and MultiThreadExecutor.run (utils/executor.py, core/executor.py).      *)
(* trials.outcomes[i] is what func applied to input_kwargs[i] returns or raises;   *)
(* the worker threads finish in any order, trials.completed lists the      *)
(* futures in the order they finished.  A caller that got a list           *)
(* summarises it as the sweep does.                                        *)
(***************************************************************************)
MaxTasks == 3

Helpers == {"multithread_run", "MultiThreadExecutor.run"}

Outcomes == { Value(F(v, 1)) : v \in 1..MaxValue } \cup { Raised("ValueError") }

OutcomeSeqs == UNION { [1..n -> Outcomes] : n \in 0..MaxTasks }

NewPool(outcomes) ==
    [helper |-> "none", outcomes |-> outcomes, running |-> {}, completed |-> <<>>]

InitPool ==
    /\ posterior_samples = NoFrame
    /\ prior_samples = NoFrame
    /\ new_prior_samples = NoFrame
    /\ binsize_spin = 1
    /\ binsize_mass = 1
    /\ assume_parameter_independence = FALSE
    /\ bounds = compute_bounds(posterior_samples, prior_samples, new_prior_samples)
    /\ pc = "idle"
    /\ op = "none"
    /\ ret = NoRet
    /\ warned = FALSE
    /\ h_in = Idle
    /\ h_out = NoHist
    /\ sd_in = NoArrays
    /\ sd_out = NoRatio
    /\ CalcUnused
    /\ col_name = "none"
    /\ rng = 0
    /\ trials \in { NewPool(o) : o \in OutcomeSeqs }
    /\ sweep = NoSweep
    /\ seen = <<>>

PoolStep ==
    UNCHANGED <<Frame, warned, h_in, h_out, sd_in, sd_out, Calc, col_name, rng, sweep, seen>>

\* futures = [exc.submit(func, kwargs) for kwargs in input_kwargs]
pool_submit(helper) ==
    /\ pc = "idle"
    /\ pc' = "running"
    /\ op' = helper
    /\ trials' = [NewPool(trials.outcomes) EXCEPT
                    !.helper = helper, !.running = DOMAIN trials.outcomes]
    /\ UNCHANGED ret
    /\ PoolStep

call_multithread_run == pool_submit("multithread_run")
call_executor_run == pool_submit("MultiThreadExecutor.run")

\* a worker thread finishes the call of future i
future_done(i) ==
    /\ pc = "running"
    /\ i \in trials.running
    /\ trials' = [trials EXCEPT !.running = @ \ {i}, !.completed = Append(@, i)]
    /\ UNCHANGED <<pc, op, ret>>
    /\ PoolStep

\* [future.result() for future in as_completed(futures)]
as_completed(outcomes, completed) == [k \in DOMAIN completed |-> outcomes[completed[k]]]

\* leaving the with block waits for every worker
multithread_run_return ==
    /\ pc = "running"
    /\ trials.helper = "multithread_run"
    /\ trials.running = {}
    /\ pc' = "returned"
    /\ ret' = gathered(as_completed(trials.outcomes, trials.completed))
    /\ UNCHANGED <<op, trials>>
    /\ PoolStep

\* wait(futures); results = [future.result() for future in futures]
executor_run_return ==
    /\ pc = "running"
    /\ trials.helper = "MultiThreadExecutor.run"
    /\ trials.running = {}
    /\ pc' = "returned"
    /\ ret' = gathered(trials.outcomes)
    /\ UNCHANGED <<op, trials>>
    /\ PoolStep

\* what the sweep reports for one threshold from the list of its trials
threshold_summary(_bfs, ref_bayes_factor) ==
    LET bfs == [i \in DOMAIN _bfs |-> FDiv(_bfs[i], ref_bayes_factor)]
    IN  [kind |-> "dict", val |-> Zero, err |-> "none", idx |-> <<>>, weights |-> <<>>,
         bayes_factor_samples |-> bfs,
         bayes_factor_median  |-> np_median(bfs),
         bayes_factor_low     |-> np_percentile(bfs, 5),
         bayes_factor_high    |-> np_percentile(bfs, 95)]

pool_summarise ==
    /\ pc = "returned"
    /\ ret.kind = "array"
    /\ ret' = threshold_summary(ret.weights, One)
    /\ UNCHANGED <<pc, op, trials>>
    /\ PoolStep

pool_return ==
    /\ pc = "returned"
    /\ pc' = "idle"
    /\ op' = "none"
    /\ ret' = NoRet
    /\ trials' = NewPool(trials.outcomes)
    /\ PoolStep

NextPool ==
    \/ call_multithread_run
    \/ call_executor_run
    \/ \E i \in 1..MaxTasks : future_done(i)
    \/ multithread_run_return
    \/ executor_run_return
    \/ pool_summarise
    \/ pool_return

SpecPool == InitPool /\ [][NextPool]_vars

(***************************************************************************)
(* Prior.to_posterior (core/prior.py).  prior_samples holds the Prior: a   *)
(* row has the remnant mass m_f, the remnant spin a_f, the kick k_f, the   *)
(* mass ratio q and the retained mass fraction m_ret; its index label is   *)
(* its position counted from 0.  seen holds the Prior's settings and the   *)
(* arguments of the call, trials the measurements still to process and     *)
(* the frames retrieve_samples returned, in the order they were collected. *)
(* Masses are in units of half the mass tolerance, spins in units of the   *)
(* spin tolerance.  The Kolmogorov-Smirnov columns are left out.           *)
(***************************************************************************)
MaxPriorRows == 2
MaxMeasurements == 2
MaxSampleRatio == 2
mass_tolerance == 2
spin_tolerance == 1

PriorMass == {0, 1, 2}
PriorSpin == {0, 1}

PriorRow(m, a) ==
    [m_f |-> F(m, 1), a_f |-> F(a, 1), k_f |-> One, q |-> F(1, 2), m_ret |-> F(1, 2)]

PriorRows == { PriorRow(m, a) : m \in PriorMass, a \in PriorSpin }

Priors == UNION { [1..n -> PriorRows] : n \in 0..MaxPriorRows }

Measurement(m, a) == [mass_measure |-> m, spin_measure |-> a]

Measurements ==
    UNION { [1..n -> { Measurement(m, a) : m \in PriorMass, a \in PriorSpin }] :
              n \in 0..MaxMeasurements }

\* (series - measure).abs() < tolerance
within(x, measure, tolerance) ==
    IF x.n >= measure * x.d THEN x.n - measure * x.d < tolerance * x.d
    ELSE measure * x.d - x.n < tolerance * x.d

\* the positions of the rows self.loc[...] keeps
possible_samples(prior, rescale_mass, spin_measure, mass_measure) ==
    SelectSeq([i \in DOMAIN prior |-> i],
              LAMBDA i : /\ within(prior[i].a_f, spin_measure, spin_tolerance)
                         /\ rescale_mass \/ within(prior[i].m_f, mass_measure, mass_tolerance))

\* a row of NaN, as pd.DataFrame(index = range(sample_ratio), columns = ...) has
MissingRow(label) ==
    [index |-> label, from_prior |-> FALSE,
     m_f |-> NaN, a_f |-> NaN, k_f |-> NaN, q |-> NaN, m_ret |-> NaN, m_1 |-> NaN, m_2 |-> NaN]

CopiedRow(prior, i) ==
    [index |-> i - 1, from_prior |-> TRUE,
     m_f |-> prior[i].m_f, a_f |-> prior[i].a_f, k_f |-> prior[i].k_f, q |-> prior[i].q,
     m_ret |-> prior[i].m_ret, m_1 |-> NaN, m_2 |-> NaN]

\* rows drawn from the whole Prior, whatever the measurement
_sample_from_whole_prior(prior, possible, sample_ratio, picks) ==
    IF possible = <<>>
    THEN [k \in 1..sample_ratio |-> MissingRow(k - 1)]
    ELSE [k \in 1..sample_ratio |-> CopiedRow(prior, picks[k])]

\* df.sample(sample_ratio, replace = True) with the rows picks chooses, or
\* sample_ratio rows of NaN when df is empty
_sample_from_possible_samples(prior, possible, sample_ratio, picks) ==
    IF possible = <<>>
    THEN [k \in 1..sample_ratio |-> MissingRow(k - 1)]
    ELSE [k \in 1..sample_ratio |-> CopiedRow(prior, possible[picks[k]])]

Picks(possible, sample_ratio) ==
    IF possible = <<>> THEN {<<>>} ELSE [1..sample_ratio -> DOMAIN possible]

\* the columns retrieve_samples writes on the sampled rows
with_measure(row, rescale_mass, likelihood, spin_measure, mass_measure) ==
    LET mass == F(mass_measure, 1)
        r == IF rescale_mass
             THEN [row EXCEPT
                     !.m_1 = FDiv(FMul(FDiv(mass, row.m_ret), row.q), FAdd(One, row.q)),
                     !.m_2 = FDiv(FDiv(mass, row.m_ret), FAdd(One, row.q)),
                     !.m_f = mass]
             ELSE row
    IN  [index |-> r.index, from_prior |-> r.from_prior, m_f |-> r.m_f, a_f |-> r.a_f,
         k_f |-> r.k_f, q |-> r.q, m_ret |-> r.m_ret, m_1 |-> r.m_1, m_2 |-> r.m_2,
         likelihood |-> likelihood,
         original_a_f |-> F(spin_measure, 1), original_m_f |-> F(mass_measure, 1)]

\* len(possible_samples) / len(self) divides by zero on an empty Prior
retrieve_samples_raises(prior) == prior = <<>>

retrieve_samples(prior, rescale_mass, sample_ratio, spin_measure, mass_measure, picks) ==
    LET possible == possible_samples(prior, rescale_mass, spin_measure, mass_measure)
        likelihood == F(Len(possible), Len(prior))
        samples == _sample_from_possible_samples(prior, possible, sample_ratio, picks)
    IN  [k \in DOMAIN samples |->
            with_measure(samples[k], rescale_mass, likelihood, spin_measure, mass_measure)]

RECURSIVE pd_concat(_)
pd_concat(frames) == IF frames = <<>> THEN <<>> ELSE Head(frames) \o pd_concat(Tail(frames))

notna(x) == ~IsNaN(x)

\* the recovery rate, the sample ids and the new index of the concatenated rows
finish_posterior(rows) ==
    LET recovered == Cardinality({k \in DOMAIN rows : notna(rows[k].k_f)})
        rate == IF Len(rows) = 0 THEN NaN ELSE F(recovered, Len(rows))
    IN  [k \in DOMAIN rows |->
            [index |-> k - 1, from_prior |-> rows[k].from_prior, m_f |-> rows[k].m_f,
             a_f |-> rows[k].a_f, k_f |-> rows[k].k_f, q |-> rows[k].q,
             m_ret |-> rows[k].m_ret, m_1 |-> rows[k].m_1, m_2 |-> rows[k].m_2,
             likelihood |-> rows[k].likelihood,
             original_a_f |-> rows[k].original_a_f, original_m_f |-> rows[k].original_m_f,
             recovery_rate |-> rate,
             sample_id |-> IF notna(rows[k].k_f) THEN F(rows[k].index, 1) ELSE NaN]]

PosteriorFrame(rows) ==
    [kind |-> "frame", val |-> Zero, err |-> "none", idx |-> <<>>, weights |-> <<>>,
     rows |-> rows]

NoCall == [pending |-> {}, samples |-> <<>>, failed |-> FALSE]

InitPrior ==
    /\ posterior_samples = NoFrame
    /\ prior_samples \in { [cols |-> {"m_f", "a_f", "k_f", "q", "m_ret"}, rows |-> r] :
                             r \in Priors }
    /\ new_prior_samples = NoFrame
    /\ binsize_spin = 1
    /\ binsize_mass = 1
    /\ assume_parameter_independence = FALSE
    /\ bounds = <<>>
    /\ pc = "idle"
    /\ op = "none"
    /\ ret = NoRet
    /\ warned = FALSE
    /\ h_in = Idle
    /\ h_out = NoHist
    /\ sd_in = NoArrays
    /\ sd_out = NoRatio
    /\ CalcUnused
    /\ col_name = "none"
    /\ rng = 0
    /\ trials = NoCall
    /\ sweep = NoSweep
    /\ seen \in { [_rescale_mass |-> r, _sample_ratio |-> n, use_threads |-> FALSE,
                   measurements |-> <<>>] : r \in BOOLEAN, n \in 1..MaxSampleRatio }

PriorStep ==
    UNCHANGED <<Frame, warned, h_in, h_out, sd_in, sd_out, Calc, col_name, rng, sweep>>

\* to_posterior(mass_posterior, spin_posterior, use_threads)
call_to_posterior ==
    /\ pc = "idle"
    /\ \E ms \in Measurements, threads \in BOOLEAN :
         /\ seen' = [seen EXCEPT !.measurements = ms, !.use_threads = threads]
         /\ trials' = [NoCall EXCEPT !.pending = DOMAIN ms]
    /\ pc' = "running"
    /\ op' = "to_posterior"
    /\ UNCHANGED ret
    /\ PriorStep

\* one retrieve_samples call finishes: any pending one with threads, the
\* next of the list without
call_retrieve_samples(i) ==
    /\ pc = "running"
    /\ op = "to_posterior"
    /\ i \in trials.pending
    /\ seen.use_threads \/ \A j \in trials.pending : i <= j
    /\ LET m == seen.measurements[i]
           prior == prior_samples.rows
           possible == possible_samples(prior, seen._rescale_mass, m.spin_measure,
                                        m.mass_measure)
       IN  IF retrieve_samples_raises(prior)
           THEN trials' = [trials EXCEPT !.pending = @ \ {i}, !.failed = TRUE]
           ELSE \E picks \in Picks(possible, seen._sample_ratio) :
                  trials' = [trials EXCEPT
                               !.pending = @ \ {i},
                               !.samples = Append(@, retrieve_samples(
                                               prior, seen._rescale_mass, seen._sample_ratio,
                                               m.spin_measure, m.mass_measure, picks))]
    /\ UNCHANGED <<pc, op, ret, seen>>
    /\ PriorStep

\* pd.concat(samples) and the columns computed on the whole frame
to_posterior_return ==
    /\ pc = "running"
    /\ op = "to_posterior"
    /\ trials.pending = {}
    /\ pc' = "returned"
    /\ ret' = IF trials.failed THEN Raised("ZeroDivisionError")
              ELSE IF trials.samples = <<>> THEN Raised("ValueError")
              ELSE PosteriorFrame(finish_posterior(pd_concat(trials.samples)))
    /\ UNCHANGED <<op, trials, seen>>
    /\ PriorStep

prior_return ==
    /\ pc = "returned"
    /\ op = "to_posterior"
    /\ pc' = "idle"
    /\ op' = "none"
    /\ ret' = NoRet
    /\ trials' = NoCall
    /\ seen' = [seen EXCEPT !.measurements = <<>>, !.use_threads = FALSE]
    /\ PriorStep

NextPrior ==
    \/ call_to_posterior
    \/ \E i \in 1..MaxMeasurements : call_retrieve_samples(i)
    \/ to_posterior_return
    \/ prior_return

SpecPrior == InitPrior /\ [][NextPrior]_vars

(***************************************************************************)
(* Drawing binary masses: Simulator._get_params_non_unif_q and             *)
(* _get_params_unif_q (core/simulator.py) and BinaryGenerator._get_masses  *)
(* (core/prior/binary.py).  Each draws, checks a Domain and calls itself   *)
(* again when the check fails; the interpreter ends the recursion with     *)
(* RecursionError at its recursion limit.  seen holds the configuration,   *)
(* trials the depth of the recursion.                                      *)
(***************************************************************************)
RecursionLimit == 3

DrawnMass == {1, 2, 3}

\* Domain.contain (schema.py): low <= value <= high
contain(domain, value) == FLe(domain.low, value) /\ FLe(value, domain.high)

\* a bound Python treats as false: None or 0
falsy(bound) == bound = None \/ bound = Zero

\* is_in_bounds (core/math.py): a bound is checked only when it is truthy
is_in_bounds(value, domain) ==
    /\ ~(~falsy(domain.low) /\ FGt(domain.low, value))
    /\ ~(~falsy(domain.high) /\ FGt(value, domain.high))

SimBoundVals == {F(1, 1), F(2, 1), F(5, 1)}
SimDomains == { [low |-> l, high |-> h] : l \in SimBoundVals, h \in SimBoundVals }

OptBoundVals == {None, Zero, F(1, 1), F(2, 1), F(5, 1)}
OptDomains ==
    { d \in [low : OptBoundVals, high : OptBoundVals] :
        (d.low # None /\ d.high # None) => FLe(d.low, d.high) }

NoDomain == [low |-> None, high |-> None]

SimConfigs ==
    { [fn |-> "_get_params_non_unif_q", mass_ratio |-> q, m_2 |-> NoDomain, flag |-> f] :
        q \in SimDomains, f \in BOOLEAN }
    \cup { [fn |-> "_get_params_unif_q", mass_ratio |-> q, m_2 |-> m, flag |-> FALSE] :
             q \in SimDomains, m \in SimDomains }
    \cup { [fn |-> "_get_masses", mass_ratio |-> q, m_2 |-> NoDomain, flag |-> f] :
             q \in OptDomains, f \in BOOLEAN }

Masses(m_1, m_2) ==
    [kind |-> "masses", val |-> Zero, err |-> "none", idx |-> <<>>, weights |-> <<>>,
     m_1 |-> m_1, m_2 |-> m_2]

PyMaxInt(a, b) == IF a >= b THEN a ELSE b
PyMinInt(a, b) == IF a >= b THEN b ELSE a

InitSim ==
    /\ posterior_samples = NoFrame
    /\ prior_samples = NoFrame
    /\ new_prior_samples = NoFrame
    /\ binsize_spin = 1
    /\ binsize_mass = 1
    /\ assume_parameter_independence = FALSE
    /\ bounds = <<>>
    /\ pc = "idle"
    /\ op = "none"
    /\ ret = NoRet
    /\ warned = FALSE
    /\ h_in = Idle
    /\ h_out = NoHist
    /\ sd_in = NoArrays
    /\ sd_out = NoRatio
    /\ CalcUnused
    /\ col_name = "none"
    /\ rng = 0
    /\ trials = [depth |-> 0]
    /\ sweep = NoSweep
    /\ seen \in SimConfigs

SimStep ==
    UNCHANGED <<Frame, warned, h_in, h_out, sd_in, sd_out, Calc, col_name, rng, sweep, seen>>

call_draw_masses ==
    /\ pc = "idle"
    /\ pc' = "running"
    /\ op' = seen.fn
    /\ trials' = [depth |-> 1]
    /\ UNCHANGED ret
    /\ SimStep

\* the frame either returns the masses or calls the function again; at the
\* recursion limit the call raises instead
draw_outcome(accepted, masses) ==
    IF accepted
    THEN /\ pc' = "returned"
         /\ ret' = masses
         /\ UNCHANGED trials
    ELSE IF trials.depth >= RecursionLimit
    THEN /\ pc' = "returned"
         /\ ret' = Raised("RecursionError")
         /\ UNCHANGED trials
    ELSE /\ trials' = [depth |-> trials.depth + 1]
         /\ UNCHANGED <<pc, ret>>

\* flag is is_masses_swappable; the masses come from the mass functions or
\* from remnant draws
_get_params_non_unif_q ==
    /\ pc = "running"
    /\ op = "_get_params_non_unif_q"
    /\ \E a \in DrawnMass, b \in DrawnMass :
         LET m_1 == IF seen.flag THEN PyMaxInt(a, b) ELSE a
             m_2 == IF seen.flag THEN PyMinInt(a, b) ELSE b
             q   == F(m_1, m_2)
         IN  draw_outcome(contain(seen.mass_ratio, q), Masses(F(m_1, 1), F(m_2, 1)))
    /\ UNCHANGED op
    /\ SimStep

\* q = self._q_bounds.draw(); m_2 = m_1 / q
_get_params_unif_q ==
    /\ pc = "running"
    /\ op = "_get_params_unif_q"
    /\ \E q \in {seen.mass_ratio.low, seen.mass_ratio.high}, a \in DrawnMass :
         LET m_2 == FDiv(F(a, 1), q)
         IN  draw_outcome(contain(seen.m_2, m_2), Masses(F(a, 1), m_2))
    /\ UNCHANGED op
    /\ SimStep

\* flag is is_mass_injected
_get_masses ==
    /\ pc = "running"
    /\ op = "_get_masses"
    /\ IF ~seen.flag
       THEN draw_outcome(TRUE, Masses(None, None))
       ELSE \E a \in DrawnMass, b \in DrawnMass :
              LET m_1 == PyMaxInt(a, b)
                  m_2 == PyMinInt(a, b)
                  mass_ratio == F(m_1, m_2)
              IN  draw_outcome(is_in_bounds(mass_ratio, seen.mass_ratio),
                               Masses(F(m_1, 1), F(m_2, 1)))
    /\ UNCHANGED op
    /\ SimStep

sim_return ==
    /\ pc = "returned"
    /\ pc' = "idle"
    /\ op' = "none"
    /\ ret' = NoRet
    /\ trials' = [depth |-> 0]
    /\ SimStep

NextSim ==
    \/ call_draw_masses
    \/ _get_params_non_unif_q
    \/ _get_params_unif_q
    \/ _get_masses
    \/ sim_return

SpecSim == InitSim /\ [][NextSim]_vars

\* every frame that is running takes its step
SpecSimFair == SpecSim /\ WF_vars(NextSim)

(***************************************************************************)
(* PriorReweighter (core/reweighting.py).  _nbins, _lb, _ub and _binwidth  *)
(* are its fields; seen holds cumulative_bayes_factor, the values the      *)
(* completed get_bayes_factor calls returned, and the number of calls.     *)
(***************************************************************************)
MaxCalls == 3

\* a stored bound Python treats as true: not None and not 0 (NaN is true)
truthy(x) == x # None /\ x # Zero

\* the cumulative factor replaced by the factor of the last call
overwritten(cumulative, bayes_factor) == bayes_factor

\* self.cumulative_bayes_factor *= bayes_factor
accumulated(cumulative, bayes_factor) == FMul(cumulative, bayes_factor)

InitReweight ==
    /\ ObjectUnused
    /\ h_in = Idle
    /\ h_out = NoHist
    /\ sd_in = NoArrays
    /\ sd_out = NoRatio
    /\ _nbins \in 1..MaxBins
    /\ _lb = None
    /\ _ub = None
    /\ _binwidth = None
    /\ params = NoParams
    /\ drawn = NoParams
    /\ col_name = "none"
    /\ rng = 0
    /\ trials = NoTrials
    /\ sweep = NoSweep
    /\ seen = [cumulative_bayes_factor |-> One, returned |-> <<>>, calls |-> 0]

ReweightStep ==
    UNCHANGED <<Frame, warned, h_in, h_out, sd_in, sd_out, _nbins, params, drawn, col_name,
                rng, trials, sweep>>

\* get_bayes_factor(new_prior, prior, posterior)
reweighter_get_bayes_factor ==
    /\ pc = "idle"
    /\ seen.calls < MaxCalls
    /\ pc' = "returned"
    /\ op' = "reweighter.get_bayes_factor"
    /\ \E new_prior \in ParamSeqs, prior \in ParamSeqs, posterior \in ParamSeqs :
         LET lb == PyMin3(SeriesMin(prior), SeriesMin(posterior), SeriesMin(new_prior))
             ub == PyMax3(SeriesMax(prior), SeriesMax(posterior), SeriesMax(new_prior))
         IN  IF truthy(_lb) \/ truthy(_ub)
             THEN \* _setup_bounds: bounds have already been initialized
                  /\ ret' = Raised("ValueError")
                  /\ seen' = [seen EXCEPT !.calls = @ + 1]
                  /\ UNCHANGED <<_lb, _ub, _binwidth>>
             ELSE IF \/ calc_get_hist_raises(new_prior, lb, ub)
                     \/ calc_get_hist_raises(prior, lb, ub)
                     \/ calc_get_hist_raises(posterior, lb, ub)
             THEN \* _compute_histogram raises before _reset_bounds is reached
                  /\ ret' = Raised("ValueError")
                  /\ seen' = [seen EXCEPT !.calls = @ + 1]
                  /\ _lb' = FromNum(lb)
                  /\ _ub' = FromNum(ub)
                  /\ _binwidth' = setup_binwidth(lb, ub)
             ELSE LET bayes_factor == calc_bayes_factor(calc_get_hist(new_prior, lb, ub),
                                                        calc_get_hist(prior, lb, ub),
                                                        calc_get_hist(posterior, lb, ub),
                                                        setup_binwidth(lb, ub))
                  IN  /\ ret' = Value(bayes_factor)
                      /\ seen' = [seen EXCEPT
                                    !.cumulative_bayes_factor = accumulated(@, bayes_factor),
                                    !.returned = Append(@, bayes_factor),
                                    !.calls = @ + 1]
                      /\ _lb' = None
                      /\ _ub' = None
                      /\ _binwidth' = None
    /\ ReweightStep

reweighter_return ==
    /\ pc = "returned"
    /\ pc' = "idle"
    /\ op' = "none"
    /\ ret' = NoRet
    /\ UNCHANGED <<_lb, _ub, _binwidth, seen>>
    /\ ReweightStep

NextReweight ==
    \/ reweighter_get_bayes_factor
    \/ reweighter_return

SpecReweight == InitReweight /\ [][NextReweight]_vars

(***************************************************************************)
(* Properties.                                                             *)
(***************************************************************************)
HasBins == \A col \in CommonColumns : ~get_hist_1d_raises(col)

ReturnedFrom(name) == pc = "returned" /\ op = name

\* C1: self-consistency.  With prior = posterior = candidate_prior = D and
\* at least one bin per shared parameter, get_bayes_factor returns 1 under
\* the independent and under the joint strategy.
SelfConsistency ==
    ( /\ ReturnedFrom("get_bayes_factor")
      /\ posterior_samples = prior_samples
      /\ new_prior_samples = prior_samples
      /\ HasBins )
    => (ret.kind = "value" /\ ret.val = One)

\* a frame whose joint histogram is the product of its per-parameter ones
ProductForm(df) ==
    /\ df.rows # <<>>
    /\ \A c \in Cells :
         get_hist_dd(df)[c]
           = FProd([j \in 1..Len(ColumnSeq) |-> get_hist_1d(df, ColumnSeq[j])[c[ColumnSeq[j]]]])

\* C2: independence equivalence.  When the joint histogram of each of the
\* three datasets is the product of its per-parameter histograms, the
\* strategy that was called returns what the other strategy computes.
IndependenceEquivalence ==
    ( /\ ReturnedFrom("get_bayes_factor")
      /\ HasBins
      /\ ProductForm(prior_samples)
      /\ ProductForm(posterior_samples)
      /\ ProductForm(new_prior_samples) )
    => ( /\ ret.kind = "value"
         /\ ret.val = IF assume_parameter_independence
                      THEN get_bayes_factor_dd
                      ELSE get_bayes_factor_1d )

\* the integral of a histogram the call built is off by more than the tolerance
BuiltInvalidHistogram ==
    /\ HasBins
    /\ \E df \in {prior_samples, posterior_samples, new_prior_samples} :
         \/ \E col \in CommonColumns : get_hist_1d_warns(df, col)
         \/ get_hist_dd_warns(df)

\* C3: a histogram whose integral deviates from 1 is a hard error:
\* get_bayes_factor fails instead of returning a number, and the violation
\* is never just logged as a warning.
InvalidDistributionIsFatal ==
    /\ (ReturnedFrom("get_bayes_factor") /\ BuiltInvalidHistogram) => ret.kind = "error"
    /\ ~warned

\* the bins of col that hold a value of the frame
in_bin(x, k, low, high, nbins) ==
    /\ x * nbins >= low * nbins + (k - 1) * (high - low)
    /\ \/ x * nbins < low * nbins + k * (high - low)
       \/ (k = nbins /\ x = high)

\* C4: histogram integral invariant.  For a non-empty sample sequence and a
\* domain [low, high] that covers all of its values, with nbins >= 1, the
\* estimate does not fail, has nbins non-negative finite densities whose
\* sum times the bin width is 1, and the density of each bin is the share
\* of the samples lying in that bin (high itself in the last bin) over the
\* bin width.
HistogramIntegralInvariant ==
    ( /\ h_out.called
      /\ h_in.samples # <<>>
      /\ \A i \in DOMAIN h_in.samples :
           h_in.low <= h_in.samples[i] /\ h_in.samples[i] <= h_in.high )
    => ( /\ ~h_out.raised
         /\ Len(h_out.hist) = h_in.nbins
         /\ \A k \in 1..h_in.nbins : IsFin(h_out.hist[k]) /\ h_out.hist[k].n >= 0
         /\ FMul(FSum(h_out.hist), np_binwidth(h_in.nbins, h_in.low, h_in.high)) = One
         /\ h_in.low < h_in.high =>
              \A k \in 1..h_in.nbins :
                 FMul(h_out.hist[k], F(h_in.high - h_in.low, h_in.nbins))
                   = F(Cardinality({i \in DOMAIN h_in.samples :
                                      in_bin(h_in.samples[i], k, h_in.low, h_in.high,
                                             h_in.nbins)}),
                       Len(h_in.samples)) )

HistogramIntegralWitness ==
    /\ h_out.called
    /\ ~h_out.raised
    /\ Len(h_in.samples) >= 2
    /\ h_in.nbins >= 2
    /\ h_in.low < h_in.high
    /\ \E i \in DOMAIN h_in.samples : h_in.samples[i] = h_in.high
    /\ \E i \in DOMAIN h_in.samples : h_in.samples[i] < h_in.high
    /\ \A i \in DOMAIN h_in.samples : h_in.low <= h_in.samples[i] /\ h_in.samples[i] <= h_in.high
    /\ h_out.hist[h_in.nbins].n > 0

\* C5: SafeRatio.  For arrays of non-negative densities, _safe_divide gives
\* per bin exactly 0 where the denominator is <= ztol and
\* numerator / denominator where it is > ztol; never inf, never NaN.
SafeRatioTotal ==
    sd_out.called =>
        /\ Len(sd_out.out) = Len(sd_in.b)
        /\ \A k \in DOMAIN sd_in.b :
             /\ IsFin(sd_out.out[k])
             /\ sd_out.out[k] = IF sd_in.b[k].n * ZtolDen <= sd_in.b[k].d
                                THEN Zero
                                ELSE F(sd_in.a[k].n * sd_in.b[k].d, sd_in.a[k].d * sd_in.b[k].n)

SafeRatioWitness ==
    /\ sd_out.called
    /\ \E k \in DOMAIN sd_in.b : sd_in.a[k] = Zero /\ sd_in.b[k] = Zero
    /\ \E k \in DOMAIN sd_in.b :
         sd_in.a[k].n > 0 /\ sd_in.b[k].n > 0 /\ sd_in.b[k].n * ZtolDen < sd_in.b[k].d
         /\ sd_out.out[k] = Zero

\* the values (with no valid BinSpec) or bins (with one) of col the frame occupies
support(df, col) ==
    IF get_hist_1d_raises(col) THEN {df.rows[i][col] : i \in DOMAIN df.rows}
    ELSE {bin_index(df.rows[i][col], bounds[col].low.v, bounds[col].high.v, get_nbins(col)) :
            i \in DOMAIN df.rows}

DisjointSupports ==
    \E col \in CommonColumns :
        support(new_prior_samples, col) \cap support(posterior_samples, col) = {}

\* C7: degenerate-weight detection.  When candidate_prior and posterior have
\* disjoint supports on a shared parameter, get_reweighted_samples fails
\* with an error under either strategy; it returns no sample set.
DegenerateWeightsDetected ==
    (ReturnedFrom("get_reweighted_samples") /\ DisjointSupports) => ret.kind = "error"

DegenerateWeightsWitness ==
    /\ ReturnedFrom("get_reweighted_samples")
    /\ DisjointSupports
    /\ HasBins
    /\ new_prior_samples.rows # <<>>
    /\ Len(posterior_samples.rows) >= 2
    /\ posterior_sample_weights_dd_error = "none"
    /\ ret.kind = "error"

\* C8: when get_reweighted_samples returns, the result has as many rows as
\* posterior, every row is a row of posterior, and no row whose combined
\* weight is 0 is among them.
ReweightedSamplesShape ==
    (ReturnedFrom("get_reweighted_samples") /\ ret.kind = "samples")
    => /\ Len(ret.idx) = Len(posterior_samples.rows)
       /\ \A i \in DOMAIN ret.idx :
            /\ ret.idx[i] \in DOMAIN posterior_samples.rows
            /\ FGt(ret.weights[ret.idx[i]], Zero)

ReweightedSamplesWitness ==
    /\ ReturnedFrom("get_reweighted_samples")
    /\ ret.kind = "samples"
    /\ Len(ret.idx) >= 2
    /\ \E i \in DOMAIN ret.weights : ~FGt(ret.weights[i], Zero)
    /\ \E i \in DOMAIN ret.weights : FGt(ret.weights[i], Zero)

\* the contribution of one parameter as the claim words it
claimed_contribution(col) ==
    LET ratio == safe_divide(get_hist_1d(new_prior_samples, col), get_hist_1d(prior_samples, col))
        post  == get_hist_1d(posterior_samples, col)
    IN  FMul(FSum([k \in DOMAIN post |-> FMul(post[k], ratio[k])]), get_binwidth(col))

\* C9: the value the independent strategy returns is the product over the
\* shared parameters of sum_bins(posterior_hist x SafeRatio(candidate_prior_hist,
\* prior_hist)) x binwidth, never a fixed constant put in its place.
ProductOfContributions ==
    ( /\ ReturnedFrom("get_bayes_factor")
      /\ assume_parameter_independence
      /\ ret.kind = "value"
      /\ prior_samples.rows # <<>>
      /\ new_prior_samples.rows # <<>> )
    => ret.val = FProd([j \in 1..Len(ColumnSeq) |-> claimed_contribution(ColumnSeq[j])])

\* the histograms of the samples the calculator drew, over the bounds of the call
CalcHist(name) ==
    np_histogram_range(drawn[name], _nbins,
                       SeqMin(params.candidate_prior_param \o params.prior_param
                              \o params.posterior_param),
                       SeqMax(params.candidate_prior_param \o params.prior_param
                              \o params.posterior_param))

CalcBinwidth ==
    F(SeqMax(params.candidate_prior_param \o params.prior_param \o params.posterior_param)
      - SeqMin(params.candidate_prior_param \o params.prior_param \o params.posterior_param),
      _nbins)

\* C6: SafeRatio is the single choke point.  In every Bayes-factor and
\* likelihood computation a bin whose prior density is <= ztol contributes
\* exactly 0: what BayesFactorCalculator returns is what SafeRatio gives on
\* the same histograms, bin by bin, also for a prior density in (0, ztol].
RatioThroughSafeRatio ==
    (ReturnedFrom("calculator.get_bayes_factor") /\ ret.kind = "value")
    => LET lr == safe_divide(CalcHist("posterior_param"), CalcHist("prior_param"))
       IN  ret.val = FMul(FSum([k \in DOMAIN lr |->
                                  FMul(CalcHist("candidate_prior_param")[k], lr[k])]),
                          CalcBinwidth)

\* C10: correlated-parameter correction.  For the parameters that prior and
\* posterior hold and candidate_prior does not, get_bayes_factor multiplies
\* into its result the contribution of the distribution those parameters
\* have in prior resampled with the product of the controlled parameters'
\* weight functions: the value returned is the one some such resample gives.
CorrelatedCorrection ==
    ( /\ ReturnedFrom("get_bayes_factor")
      /\ assume_parameter_independence
      /\ ret.kind = "value"
      /\ posterior_samples.cols \ new_prior_samples.cols # {}
      /\ ~legacy_get_bayes_factor_raises )
    => \E us \in Draws(Len(prior_samples.rows)) : ret.val = legacy_get_bayes_factor(us)

(***************************************************************************)
(* BoundsResolver.                                                         *)
(***************************************************************************)
Datasets == <<posterior_samples, prior_samples, new_prior_samples>>

\* the values of one parameter observed in the datasets that contain it
observed(col) ==
    UNION { { Datasets[k].rows[i][col] : i \in 1..Len(Datasets[k].rows) } :
            k \in { j \in 1..3 : col \in Datasets[j].cols } }

SetMin(S) == CHOOSE x \in S : \A y \in S : x <= y
SetMax(S) == CHOOSE x \in S : \A y \in S : x >= y

\* C11: for every parameter observed in at least one dataset, the object holds
\* a Domain for it whose low is the minimum and whose high is the maximum of
\* the values observed in the datasets that contain it, so that low <= high
\* and every observed value lies in [low, high].
BoundsResolved ==
    \A col \in Columns :
        observed(col) # {} =>
            /\ col \in DOMAIN bounds
            /\ ~bounds[col].low.nan /\ ~bounds[col].high.nan
            /\ bounds[col].low.v = SetMin(observed(col))
            /\ bounds[col].high.v = SetMax(observed(col))
            /\ bounds[col].low.v <= bounds[col].high.v
            /\ \A v \in observed(col) : bounds[col].low.v <= v /\ v <= bounds[col].high.v

AllColumns == (posterior_samples.cols \cup prior_samples.cols) \cup new_prior_samples.cols

\* C12: a call that resolves bins, edges, a bin width or weights for a
\* parameter that no dataset contains fails with an error, and the object
\* holds no Domain for a parameter that no dataset contains.
MissingParameterFails ==
    /\ DOMAIN bounds \subseteq AllColumns
    /\ (pc = "returned" /\ col_name \in Names \ AllColumns) => ret.kind = "error"

MissingParameterWitness ==
    /\ ReturnedFrom("get_edges")
    /\ col_name = "a_1"
    /\ "a_1" \notin AllColumns
    /\ Len(prior_samples.rows) > 0
    /\ ret = Raised("KeyError")

\* C13: for every shared parameter whose Domain is resolved, get_nbins
\* returns a bin count of at least 1 and get_binwidth returns
\* (high - low) / nbins.
BinCountAtLeastOne ==
    ( /\ pc = "returned"
      /\ col_name \in CommonColumns
      /\ ~bounds[col_name].low.nan /\ ~bounds[col_name].high.nan )
    => /\ op = "get_nbins" => (ret.kind = "value" /\ FLe(One, ret.val))
       /\ op = "get_binwidth" =>
            ( /\ ret.kind = "value"
              /\ FMul(ret.val, F(get_nbins(col_name), 1))
                     = F(bounds[col_name].high.v - bounds[col_name].low.v, 1) )

(***************************************************************************)
(* Bootstrap.                                                              *)
(***************************************************************************)
SameMultiset(a, b) ==
    /\ Len(a) = Len(b)
    /\ \A i \in DOMAIN a :
         Cardinality({j \in DOMAIN a : a[j] = a[i]}) = Cardinality({j \in DOMAIN b : b[j] = a[i]})

\* the Bayes factors of n trials run one after the other from generator state s
RECURSIVE sequential_trials(_, _)
sequential_trials(s, n) ==
    IF n = 0 THEN <<>>
    ELSE LET s1 == rng_after(s, Len(prior_samples.rows))
             s2 == rng_after(s1, Len(posterior_samples.rows))
             s3 == rng_after(s2, Len(new_prior_samples.rows))
         IN  <<trial_bayes_factor(bootstrap_sample(prior_samples, s),
                                  bootstrap_sample(posterior_samples, s1),
                                  bootstrap_sample(new_prior_samples, s2)).val>>
             \o sequential_trials(s3, n - 1)

\* C18: for a fixed seed of the random stream, the Bayes-factor samples that
\* the concurrently running bootstrap trials return are the same collection
\* under every interleaving of the trials: the one the trials give when run
\* one after the other.
InterleavingIndependent ==
    ( /\ ReturnedFrom("sample_bayes_factor")
      /\ sweep = NoSweep
      /\ ret.kind = "array" )
    => SameMultiset(ret.weights, sequential_trials(trials.seed, Len(trials.threads)))

(***************************************************************************)
(* BayesFactorSweep.                                                       *)
(***************************************************************************)
SweepReturned == sweep.pc = "done" /\ pc = "returned" /\ ret.kind = "dict"

\* the chosen lower bound and the largest kick of the candidate prior, as
\* thresholds of the sweep are kept
sweep_lower_bound == interpolated(FromInts(sweep.kicks), 1, Len(sweep.kicks))
sweep_maximum == F(SeqMax(sweep.kicks), 1)

SweepShape ==
    LET t == ret.escape_velocity
        n == Len(t)
    IN  /\ \A k \in 1..(n - 1) : FLe(t[k].v, t[k + 1].v)
        /\ n >= 1
        /\ t[1].v = FPow(sweep_lower_bound, t[1].e)
        /\ t[n].v = FPow(sweep_maximum, t[n].e)
        /\ Len(ret.bayes_factor_median) = n
        /\ Len(ret.bayes_factor_low) = n
        /\ Len(ret.bayes_factor_high) = n
        /\ \A k \in 1..n :
             /\ FLe(ret.bayes_factor_low[k], ret.bayes_factor_median[k])
             /\ FLe(ret.bayes_factor_median[k], ret.bayes_factor_high[k])

\* C14: whenever the sweep returns, its thresholds are non-decreasing, start
\* at the chosen lower bound and end at the largest kick of the candidate
\* prior, the median, low and high lists have one entry per threshold, and
\* low <= median <= high at every threshold.
SweepOutputShape == SweepReturned => SweepShape

\* the rows of the candidate prior whose kick is at most the threshold k
at_most(candidate_prior, kicks, k) ==
    SelectRows(candidate_prior.rows, [i \in DOMAIN kicks |-> kick_le(kicks[i], k)])

\* C15: at every threshold the candidate prior handed to the Bayes-factor
\* computation holds exactly the candidate-prior samples whose kick is at
\* most the threshold, and at a threshold equal to the largest kick it holds
\* every sample.
SweepFilterInclusive ==
    sweep.pc = "computing" =>
        LET k == sweep._ks[sweep.i] IN
        /\ new_prior_samples.rows = at_most(sweep.candidate_prior, sweep.kicks, k)
        /\ k.v = FPow(F(SeqMax(sweep.kicks), 1), k.e)
               => new_prior_samples.rows = sweep.candidate_prior.rows

\* the candidate-prior rows that pass the filter of the pass under way
sweep_kept == filtered_new_prior(sweep.new_prior, sweep.kicks, sweep.v_escs[sweep.i])

count_at_most(bh, lb) == Cardinality({i \in DOMAIN bh.kicks : bh.kicks[i] <= lb})

\* C17: the lower bound of the sweep is chosen so that every candidate prior
\* that takes part, both black holes when two are given, has at least the
\* configured minimum number of samples with a kick at most that bound.
SweepLowerBound ==
    sweep.pc = "bounded" =>
        \A bh \in {sweep.candidate_prior_bh1, sweep.candidate_prior_bh2} :
            bh.given => count_at_most(bh, sweep.lb_kick) >= sweep.least_n_samples

(***************************************************************************)
(* Determinism.                                                            *)
(***************************************************************************)
\* C19: with the same datasets and the same random_state, a later call of
\* get_reweighted_samples returns the same rows, and a later non-bootstrapped
\* get_bayes_factor the same value, as the first call did, whatever calls
\* were made in between.
DeterministicGivenSeed ==
    (pc = "returned" /\ op \in DOMAIN seen.first) => ret = seen.first[op]

DeterministicWitness ==
    /\ ReturnedFrom("get_reweighted_samples")
    /\ "get_reweighted_samples" \in DOMAIN seen.first
    /\ ret.kind = "samples"
    /\ rng # 0
    /\ rng_draws(rng, Len(ret.idx)) # seeded_draws(seen.random_state, Len(ret.idx))
    /\ \E us \in Draws(Len(ret.idx)) : sample_rows(ret.weights, us) # ret.idx

(***************************************************************************)
(* Frame effect.                                                           *)
(***************************************************************************)
caller_new_prior == IF sweep.pc = "none" THEN new_prior_samples ELSE sweep.new_prior

\* C20: no step of get_bayes_factor (bootstrapped or not), get_weights,
\* get_reweighted_samples or the sweep, returning or failing, changes the
\* rows, columns or values of the caller's prior, posterior or candidate
\* prior; the filtered, padded and resampled frames are other frames.
DatasetsReadOnly ==
    [][/\ posterior_samples' = posterior_samples
       /\ prior_samples' = prior_samples
       /\ caller_new_prior' = caller_new_prior]_vars

DatasetsReadOnlyWitness ==
    /\ sweep.pc = "done"
    /\ pc = "returned"
    /\ ret.kind = "dict"
    /\ Len(new_prior_samples.rows) < Len(sweep.new_prior.rows)
    /\ Len(sweep.new_prior.rows) = Len(sweep.kicks)

(***************************************************************************)
(* The interface.                                                          *)
(***************************************************************************)
\* C21: an interface operation never fails because the selected strategy
\* lacks it: no returned get_likelihood_samples, get_weights,
\* get_bayes_factor or get_reweighted_samples call raised AttributeError,
\* for either value of assume_parameter_independence.
InterfaceDispatches ==
    (pc = "returned" /\ op \in InterfaceOps) => ret.err # "AttributeError"

(***************************************************************************)
(* The parallel helpers.                                                   *)
(***************************************************************************)
\* the values of the calls in input order
outcome_values == [i \in DOMAIN trials.outcomes |-> trials.outcomes[i].val]

\* C22: whatever order the trials completed in, the list collected holds
\* every trial's value exactly once, and the median, 5th and 95th
\* percentile reported from it are those of the values in input order.
CompletionOrderIrrelevant ==
    /\ (pc = "returned" /\ ret.kind = "array" /\ op \in Helpers) =>
           SameMultiset(ret.weights, outcome_values)
    /\ (pc = "returned" /\ ret.kind = "dict") =>
           /\ SameMultiset(ret.bayes_factor_samples, outcome_values)
           /\ ret.bayes_factor_median = np_median(outcome_values)
           /\ ret.bayes_factor_low = np_percentile(outcome_values, 5)
           /\ ret.bayes_factor_high = np_percentile(outcome_values, 95)

CompletionOrderWitness ==
    /\ pc = "returned"
    /\ ret.kind = "dict"
    /\ op = "multithread_run"
    /\ Len(trials.completed) = MaxTasks
    /\ trials.completed[1] = MaxTasks
    /\ ret.bayes_factor_samples # outcome_values
    /\ ret.bayes_factor_low # ret.bayes_factor_median
    /\ ret.bayes_factor_high # ret.bayes_factor_median

\* C23: when a submitted call raised, the helper raises; a list a helper
\* returns, and a summary reported from it, has an entry for every call.
FailureSurfaced ==
    (pc = "returned" /\ op \in Helpers) =>
        /\ (\E i \in DOMAIN trials.outcomes : trials.outcomes[i].kind = "error")
               => ret.kind = "error"
        /\ ret.kind = "array" => Len(ret.weights) = Len(trials.outcomes)
        /\ ret.kind = "dict" => Len(ret.bayes_factor_samples) = Len(trials.outcomes)

FailureSurfacedWitness ==
    /\ pc = "returned"
    /\ op = "multithread_run"
    /\ ret.kind = "error"
    /\ \E i \in DOMAIN trials.outcomes : trials.outcomes[i].kind = "value"
    /\ trials.outcomes[trials.completed[Len(trials.completed)]].kind = "error"

\* C30: element i of the list a helper returns is the result of the call
\* on input_kwargs[i], for every completion order.
ResultsInInputOrder ==
    (pc = "returned" /\ op \in Helpers /\ ret.kind = "array") => ret.weights = outcome_values

(***************************************************************************)
(* Prior.to_posterior.                                                     *)
(***************************************************************************)
Distance(a, b) == IF a >= b THEN a - b ELSE b - a

\* the returned posterior, read against the Prior and the measurements:
\* sample_ratio rows per measurement; the rows of a measurement with a
\* matching prior sample are copies of matching samples, those of a
\* measurement without one are missing; the recovery rate on every row is
\* the fraction of rows of matched measurements.  A sample matches when its
\* spin is within spin_tolerance of the measured spin and, if by_mass, its
\* mass within mass_tolerance of the measured mass.
PosteriorMatches(by_mass) ==
    LET rows  == ret.rows
        prior == prior_samples.rows
        ms    == seen.measurements
        matching(m) ==
            { i \in DOMAIN prior :
                /\ Distance(prior[i].a_f.n, m.spin_measure) < spin_tolerance
                /\ by_mass => Distance(prior[i].m_f.n, m.mass_measure) < mass_tolerance }
        of(m) == { k \in DOMAIN rows : /\ rows[k].original_m_f = F(m.mass_measure, 1)
                                       /\ rows[k].original_a_f = F(m.spin_measure, 1) }
        times(m) == Cardinality({ j \in DOMAIN ms : ms[j] = m })
        matched == { k \in DOMAIN rows :
                       \E j \in DOMAIN ms : k \in of(ms[j]) /\ matching(ms[j]) # {} }
    IN  /\ \A j \in DOMAIN ms : Cardinality(of(ms[j])) = seen._sample_ratio * times(ms[j])
        /\ \A j \in DOMAIN ms : \A k \in of(ms[j]) :
              IF matching(ms[j]) # {}
              THEN \E i \in matching(ms[j]) :
                     /\ rows[k].sample_id = F(i - 1, 1)
                     /\ rows[k].a_f = prior[i].a_f
                     /\ rows[k].k_f = prior[i].k_f
                     /\ rows[k].m_f = IF by_mass THEN prior[i].m_f
                                      ELSE F(ms[j].mass_measure, 1)
              ELSE /\ IsNaN(rows[k].sample_id)
                   /\ IsNaN(rows[k].a_f)
                   /\ IsNaN(rows[k].k_f)
                   /\ by_mass => IsNaN(rows[k].m_f)
        /\ \A k \in DOMAIN rows : rows[k].recovery_rate = F(Cardinality(matched), Len(rows))

ToPosteriorReturned == pc = "returned" /\ op = "to_posterior" /\ ret.kind = "frame"

\* C24 as stated: every returned posterior has sample_ratio rows per
\* measurement, copies of samples within the mass and spin tolerances for a
\* measurement that has such a sample and missing rows otherwise, and the
\* recovery rate and sample ids agree with that.
ToPosteriorByMassAndSpin == ToPosteriorReturned => PosteriorMatches(TRUE)

\* C24, amended: the same holds with the Prior's own matching rule: mass and
\* spin tolerances when rescale_mass is off, the spin tolerance alone when
\* it is on, where the rows carry the measured mass as their remnant mass.
ToPosteriorByMode == ToPosteriorReturned => PosteriorMatches(~seen._rescale_mass)

ToPosteriorWitness ==
    /\ ToPosteriorReturned
    /\ seen._rescale_mass
    /\ seen.use_threads
    /\ Len(seen.measurements) = MaxMeasurements
    /\ seen.measurements[1].spin_measure # seen.measurements[MaxMeasurements].spin_measure
    /\ ret.rows[1].original_a_f = F(seen.measurements[MaxMeasurements].spin_measure, 1)
    /\ \E k \in DOMAIN ret.rows : ~ret.rows[k].from_prior
    /\ \E k \in DOMAIN ret.rows :
         /\ ret.rows[k].from_prior
         /\ Distance(prior_samples.rows[ret.rows[k].sample_id.n + 1].m_f.n,
                     ret.rows[k].original_m_f.n) >= mass_tolerance

(***************************************************************************)
(* Rejection sampling.                                                     *)
(***************************************************************************)
\* low <= value <= high, where a bound that is None does not bound
in_domain(value, domain) ==
    /\ domain.low = None \/ FLe(domain.low, value)
    /\ domain.high = None \/ FLe(value, domain.high)

\* C25: a call that draws binary masses ends after at most RecursionLimit
\* draws, and masses it returns satisfy the constraint it retried on: the
\* mass ratio lies in the mass-ratio Domain (non-uniform q, _get_masses)
\* or the secondary mass in its Domain (uniform q).
RetriedConstraintHolds ==
    /\ trials.depth <= RecursionLimit
    /\ (pc = "returned" /\ ret.kind = "masses" /\ ret.m_1 # None) =>
          IF op = "_get_params_unif_q" THEN in_domain(ret.m_2, seen.m_2)
          ELSE in_domain(FDiv(ret.m_1, ret.m_2), seen.mass_ratio)

\* every call that draws masses returns or raises
DrawTerminates == (pc = "running") ~> (pc = "returned")

(***************************************************************************)
(* PriorReweighter.                                                        *)
(***************************************************************************)
\* C26: when a get_bayes_factor call has ended, by returning or by raising,
\* the stored bounds _lb, _ub and _binwidth are unset again, and a call is
\* never rejected because of bounds an earlier call left behind.
BoundsUnsetAfterCall ==
    (pc = "returned" /\ op = "reweighter.get_bayes_factor") =>
        _lb = None /\ _ub = None /\ _binwidth = None

\* C28: cumulative_bayes_factor is 1 before any call and is always the
\* product of the values the completed get_bayes_factor calls returned; a
\* call that raised has not changed it.
CumulativeIsProduct ==
    /\ seen.returned = <<>> => seen.cumulative_bayes_factor = One
    /\ seen.cumulative_bayes_factor = FProd(seen.returned)

CumulativeWitness ==
    /\ pc = "returned"
    /\ ret.kind = "value"
    /\ Len(seen.returned) = 2
    /\ seen.calls = 3
    /\ seen.cumulative_bayes_factor # One
    /\ seen.cumulative_bayes_factor # ret.val
    /\ seen.cumulative_bayes_factor # Zero
    /\ seen.returned[1] # One

\* the normalized ratio of bin k (1-based) of the weight function of col
normalized_ratio(col, k) ==
    LET prior_hist     == get_hist_1d(prior_samples, col)
        new_prior_hist == get_hist_1d(new_prior_samples, col)
        ratio          == safe_divide(new_prior_hist, prior_hist)
        norm           == FSum([j \in DOMAIN ratio |-> FMul(ratio[j], get_binwidth(col))])
    IN  FDiv(ratio[k], norm)

\* the 1-based bin in which the histogram of col counts x
containing_bin(col, x) ==
    bin_index(x, bounds[col].low.v, bounds[col].high.v, get_nbins(col)) + 1

\* C27: WeightFunction bin lookup.  The weight function built from a ratio
\* histogram evaluates to 0 at every query value outside the Domain; at
\* every query value inside the closed Domain [low, high], a sample equal to
\* high included, it evaluates to the normalized ratio of the bin in which
\* the histogram counts the value.
WeightFunctionBinLookup ==
    (ReturnedFrom("get_weights") /\ ret.kind = "array") =>
        \A i \in DOMAIN ret.weights :
            LET x == posterior_samples.rows[i][col_name]
            IN  IF x < bounds[col_name].low.v \/ x > bounds[col_name].high.v
                THEN ret.weights[i] = Zero
                ELSE ret.weights[i] = normalized_ratio(col_name, containing_bin(col_name, x))

\* C29: in the joint strategy's per-sample weight lookup every posterior
\* sample whose values lie in the resolved Domains, a sample equal to a
\* Domain's upper bound included, maps in every dimension to a bin index in
\* 0..nbins-1, the bin in which the N-D histogram counts that sample; the
\* lookup never indexes outside the weights grid.
JointLookupInGrid ==
    ( /\ ReturnedFrom("get_reweighted_samples")
      /\ ~assume_parameter_independence
      /\ \A col \in CommonColumns : ~get_hist_1d_raises(col) )
    => /\ ret.err # "IndexError"
       /\ \A i \in DOMAIN posterior_samples.rows : \A col \in CommonColumns :
            LET r == posterior_samples.rows[i]
            IN  row_in_range(r) =>
                    /\ lookup_index(r, col) \in 0..(get_nbins(col) - 1)
                    /\ lookup_index(r, col) + 1 = row_cell(r)[col]

====
